---------------------------- MODULE Spec2Model ----------------------------
(***************************************************************************)
(* Script validation and execution pipeline of the macOS ecosystem MCP     *)
(* server: the security validator (executor/validator.ts), the execution   *)
(* wrapper (executor/applescript.ts), the error taxonomy                   *)
(* (shared/errors.ts) and the timeout race (shared/utils.ts); the string   *)
(* escaping of shared/utils.ts, the script generators of apps/*/scripts.ts *)
(* with their input schemas, the list-result parsers of apps/*/index.ts,   *)
(* the find-free-time script of apps/calendar/scripts.ts, and retry() of   *)
(* shared/utils.ts.                                                        *)
(*                                                                         *)
(* Scripts, application names and error messages are strings; they are     *)
(* inspected character by character (Len, SubSeq, \o on strings), the way  *)
(* the regular expressions and String methods of the source inspect them.  *)
(***************************************************************************)
EXTENDS Integers, Sequences, FiniteSets, TLC

VARIABLES
    ctx,         \* the ExecutionContext of the call
    pc,          \* "idle" | "awaiting" | "returned" | "threw"; "validated", "escaped",
                 \* "parsed", "generated" or "invalid" once the function under study
                 \* ran; "calling" | "delaying" inside retry()
    now,         \* Date.now(), in ms
    ticks,       \* number of clock advances so far
    startTime,   \* executeScript's startTime
    engine,      \* runAppleScript promise: "notInvoked" | "pending" | "resolved" | "rejected"
    engineCalls, \* how many times runAppleScript was invoked
    thrown,      \* the value the catch block received
    duration,    \* const duration = Date.now() - startTime, on return or in the catch block
    timer,       \* the setTimeout of timeout(): "unset" | "armed" | "fired"
    result,      \* the string executeScript returned
    error,       \* the error executeScript threw (validateScript's verdict in SpecValidator)
    env,         \* process.env as read at startup
    calendar,    \* the events the Calendar application holds
    retrying,    \* the locals of a retry() in progress, and what it did so far
    caller,      \* who awaits the call: "none" | "executeScript" | "testAppAccess" | "isAppRunning"
    answer,      \* what testAppAccess / isAppRunning returned: {} until it returns, then {b}
    applied,     \* the scripts the engine ran to completion on their target application
    input,       \* the argument of the function or tool handler under study
    output,      \* what that function returned
    calls        \* the executeScript calls in flight at once (SpecConcurrent)

vars == <<ctx, pc, now, ticks, startTime, engine, engineCalls, thrown, duration, timer,
          result, error, env, calendar, retrying, caller, answer, applied, input, output,
          calls>>

(***************************************************************************)
(* Bounds of the model.                                                    *)
(***************************************************************************)
MaxFrags == 2    \* a validator input is a concatenation of at most MaxFrags fragments
MaxTicks == 3    \* clock advances per behaviour
MaxEscLen == 4   \* length of the strings given to escapeAppleScriptString
MaxRecords == 3  \* records in the engine output given to parseReminderOutput
MaxCalls == 2    \* executeScript calls running at once
MaxEvents == 2   \* events a calendar holds

(***************************************************************************)
(* String primitives of the JavaScript runtime.                            *)
(***************************************************************************)
Char(s, i) == SubSeq(s, i, i)

UpperLetters == "ABCDEFGHIJKLMNOPQRSTUVWXYZ"
LowerLetters == "abcdefghijklmnopqrstuvwxyz"

ToLowerTable ==
    [c \in {Char(UpperLetters, i) : i \in 1..26} |->
        Char(LowerLetters, CHOOSE i \in 1..26 : Char(UpperLetters, i) = c)]

lowerChar(c) == IF c \in DOMAIN ToLowerTable THEN ToLowerTable[c] ELSE c

\* String.prototype.toLowerCase
RECURSIVE toLowerCase(_)
toLowerCase(s) ==
    IF Len(s) = 0 THEN ""
    ELSE IF Len(s) = 1 THEN lowerChar(s)
    ELSE LET h == Len(s) \div 2
         IN  toLowerCase(SubSeq(s, 1, h)) \o toLowerCase(SubSeq(s, h + 1, Len(s)))

\* String.prototype.includes
includes(s, p) ==
    \E i \in 1..(Len(s) - Len(p) + 1) : SubSeq(s, i, i + Len(p) - 1) = p

\* the regular expression class \s, and the characters trim() strips
IsSpace(c) == c \in {" ", "\n", "\t"}

\* the regular expression class ["']
IsQuote(c) == c \in {"\"", "'"}

\* \s+ from index i: the least j >= i with j past the end of s or s[j] not
\* whitespace (j > i when at least one whitespace character was consumed)
SpaceRunEnd(s, i) ==
    CHOOSE j \in i..(Len(s) + 1) :
        /\ (j = Len(s) + 1 \/ ~IsSpace(Char(s, j)))
        /\ \A k \in i..(j - 1) : IsSpace(Char(s, k))

\* [^"']+ from index i: the least j >= i with j past the end of s or s[j] a quote
NameRunEnd(s, i) ==
    CHOOSE j \in i..(Len(s) + 1) :
        /\ (j = Len(s) + 1 \/ IsQuote(Char(s, j)))
        /\ \A k \in i..(j - 1) : ~IsQuote(Char(s, k))

\* String.prototype.trim
trim(s) ==
    LET first == SpaceRunEnd(s, 1)
        last  == CHOOSE i \in 0..Len(s) :
                    /\ (i = 0 \/ ~IsSpace(Char(s, i)))
                    /\ \A k \in (i + 1)..Len(s) : IsSpace(Char(s, k))
    IN  IF first > Len(s) THEN "" ELSE SubSeq(s, first, last)

\* String.prototype.repeat
RECURSIVE repeat(_, _)
repeat(s, n) ==
    IF n = 0 THEN ""
    ELSE LET h == repeat(s, n \div 2)
         IN  IF n % 2 = 0 THEN h \o h ELSE h \o h \o s

(***************************************************************************)
(* executor/types.ts: the static policy tables.                            *)
(***************************************************************************)
ALLOWED_APPS ==
    << "Reminders", "Calendar", "Notes", "Mail", "Messages", "Safari",
       "Music", "Photos", "Shortcuts", "Contacts", "Finder" >>

FORBIDDEN_PATTERNS ==
    << "do shell script", "sudo", "rm -rf", "delete file", "delete folder",
       "System Events", "keystroke", "key code", "administrator privileges",
       "with administrator", "curl", "wget", "python", "ruby", "perl",
       "bash", "zsh", "sh -c" >>

(***************************************************************************)
(* shared/errors.ts: the error classes.  An error is a record of the       *)
(* fields toJSON() lists; details undefined is NoDetails.                  *)
(***************************************************************************)
NoDetails == [undefined |-> TRUE]

MacOSMCPError(name, message, code, details) ==
    [name |-> name, message |-> message, code |-> code, details |-> details]

SecurityError(message, details) ==
    MacOSMCPError("SecurityError", message, "SECURITY_VIOLATION", details)

\* no error: validateScript returned, executeScript has not thrown
NoError == [name |-> "", message |-> "", code |-> "", details |-> NoDetails]

(***************************************************************************)
(* executor/validator.ts.                                                  *)
(***************************************************************************)
maxLength == 50000

\* isAllowedApp comparing without regard to letter case
isAllowedApp_anyCase(app) ==
    \E i \in 1..Len(ALLOWED_APPS) : toLowerCase(ALLOWED_APPS[i]) = toLowerCase(app)

isAllowedApp(app) == \E i \in 1..Len(ALLOWED_APPS) : ALLOWED_APPS[i] = app

\* One match of /tell\s+application\s+["']([^"']+)["']/i starting exactly at
\* index i of s: [found, last (index of the closing quote), app (group 1)].
NoMatch == [found |-> FALSE, last |-> 0, app |-> ""]

tellPatternAt(s, i) ==
    IF ~(i + 3 <= Len(s) /\ toLowerCase(SubSeq(s, i, i + 3)) = "tell") THEN NoMatch
    ELSE
    LET a == i + 4
        b == SpaceRunEnd(s, a)
    IN  IF ~(b > a /\ b + 10 <= Len(s)
             /\ toLowerCase(SubSeq(s, b, b + 10)) = "application") THEN NoMatch
        ELSE
        LET c == b + 11
            d == SpaceRunEnd(s, c)
        IN  IF ~(d > c /\ d <= Len(s) /\ IsQuote(Char(s, d))) THEN NoMatch
            ELSE
            LET e == NameRunEnd(s, d + 1)
            IN  IF e > d + 1 /\ e <= Len(s)
                THEN [found |-> TRUE, last |-> e, app |-> SubSeq(s, d + 1, e - 1)]
                ELSE NoMatch

\* The first match at or after index from: the regular expression's lastIndex scan.
tellPatternFrom(s, from) ==
    LET starts == {i \in from..Len(s) : lowerChar(Char(s, i)) = "t" /\ tellPatternAt(s, i).found}
    IN  IF starts = {} THEN NoMatch
        ELSE tellPatternAt(s, CHOOSE i \in starts : \A j \in starts : i <= j)

\* script.matchAll(tellPattern): group 1 of the successive non-overlapping matches.
RECURSIVE matchAllFrom(_, _)
matchAllFrom(s, from) ==
    LET m == tellPatternFrom(s, from)
    IN  IF m.found THEN <<m.app>> \o matchAllFrom(s, m.last + 1) ELSE <<>>

matchAll(s) == matchAllFrom(s, 1)

\* scriptTargetsApp satisfied by any opening-target clause, whatever app it names
scriptTargetsApp_anyClause(script, targetApp) ==
    LET matches == matchAll(script)
    IN  \E k \in 1..Len(matches) : matches[k] # ""

scriptTargetsApp(script, targetApp) ==
    LET matches == matchAll(script)
    IN  \E k \in 1..Len(matches) :
            /\ matches[k] # ""
            /\ toLowerCase(matches[k]) = toLowerCase(targetApp)

NoPattern == ""

\* findForbiddenPattern searching the script as written, not lower-cased
findForbiddenPattern_caseSensitive(script) ==
    LET hits == {k \in 1..Len(FORBIDDEN_PATTERNS) :
                    includes(script, toLowerCase(FORBIDDEN_PATTERNS[k]))}
    IN  IF hits = {} THEN NoPattern
        ELSE FORBIDDEN_PATTERNS[CHOOSE k \in hits : \A j \in hits : k <= j]

\* the first pattern, in table order, that the lower-cased script includes; or null
findForbiddenPattern(script) ==
    LET lowerScript == toLowerCase(script)
        hits == {k \in 1..Len(FORBIDDEN_PATTERNS) :
                    includes(lowerScript, toLowerCase(FORBIDDEN_PATTERNS[k]))}
    IN  IF hits = {} THEN NoPattern
        ELSE FORBIDDEN_PATTERNS[CHOOSE k \in hits : \A j \in hits : k <= j]

\* /^tell\s+application\s+["']/i on the trimmed script
startsWithTellApplication(script) ==
    LET trimmed == trim(script)
    IN  /\ 4 <= Len(trimmed)
        /\ toLowerCase(SubSeq(trimmed, 1, 4)) = "tell"
        /\ LET b == SpaceRunEnd(trimmed, 5)
           IN  /\ b > 5
               /\ b + 10 <= Len(trimmed)
               /\ toLowerCase(SubSeq(trimmed, b, b + 10)) = "application"
               /\ LET d == SpaceRunEnd(trimmed, b + 11)
                  IN  d > b + 11 /\ d <= Len(trimmed) /\ IsQuote(Char(trimmed, d))

\* the messages of the six rejections
EmptyMessage == "Script cannot be empty"
LengthMessage == "Script exceeds maximum length of " \o ToString(maxLength) \o " characters"
WhitelistMessage(app) == "Application \"" \o app \o "\" is not in the allowed list"
MismatchMessage(app) == "Script does not target the declared application \"" \o app \o "\""
ForbiddenMessage(pattern) == "Script contains forbidden pattern: \"" \o pattern \o "\""
StartMessage == "Script must start with \"tell application\" statement"

\* validateScript with the forbidden-pattern scan moved ahead of the whitelist
\* and self-consistency checks
validateScript_patternFirst(script, targetApp) ==
    IF script = "" \/ Len(trim(script)) = 0
    THEN SecurityError(EmptyMessage, NoDetails)
    ELSE IF Len(script) > maxLength
    THEN SecurityError(LengthMessage, [actualLength |-> Len(script)])
    ELSE IF findForbiddenPattern(script) # NoPattern
    THEN SecurityError(ForbiddenMessage(findForbiddenPattern(script)),
                       [pattern |-> findForbiddenPattern(script), app |-> targetApp])
    ELSE IF ~isAllowedApp(targetApp)
    THEN SecurityError(WhitelistMessage(targetApp),
                       [app |-> targetApp, allowedApps |-> ALLOWED_APPS])
    ELSE IF ~scriptTargetsApp(script, targetApp)
    THEN SecurityError(MismatchMessage(targetApp), [app |-> targetApp])
    ELSE IF ~startsWithTellApplication(script)
    THEN SecurityError(StartMessage, [app |-> targetApp])
    ELSE NoError

\* validateScript without its structural-start check (layer 6)
validateScript_noStartCheck(script, targetApp) ==
    IF script = "" \/ Len(trim(script)) = 0
    THEN SecurityError(EmptyMessage, NoDetails)
    ELSE IF Len(script) > maxLength
    THEN SecurityError(LengthMessage, [actualLength |-> Len(script)])
    ELSE IF ~isAllowedApp(targetApp)
    THEN SecurityError(WhitelistMessage(targetApp),
                       [app |-> targetApp, allowedApps |-> ALLOWED_APPS])
    ELSE IF ~scriptTargetsApp(script, targetApp)
    THEN SecurityError(MismatchMessage(targetApp), [app |-> targetApp])
    ELSE IF findForbiddenPattern(script) # NoPattern
    THEN SecurityError(ForbiddenMessage(findForbiddenPattern(script)),
                       [pattern |-> findForbiddenPattern(script), app |-> targetApp])
    ELSE NoError

\* validateScript returns NoError, or the SecurityError it throws
validateScript(script, targetApp) ==
    IF script = "" \/ Len(trim(script)) = 0
    THEN SecurityError(EmptyMessage, NoDetails)
    ELSE IF Len(script) > maxLength
    THEN SecurityError(LengthMessage, [actualLength |-> Len(script)])
    ELSE IF ~isAllowedApp(targetApp)
    THEN SecurityError(WhitelistMessage(targetApp),
                       [app |-> targetApp, allowedApps |-> ALLOWED_APPS])
    ELSE IF ~scriptTargetsApp(script, targetApp)
    THEN SecurityError(MismatchMessage(targetApp), [app |-> targetApp])
    ELSE LET forbiddenMatch == findForbiddenPattern(script)
         IN  IF forbiddenMatch # NoPattern
             THEN SecurityError(ForbiddenMessage(forbiddenMatch),
                                [pattern |-> forbiddenMatch, app |-> targetApp])
             ELSE IF ~startsWithTellApplication(script)
             THEN SecurityError(StartMessage, [app |-> targetApp])
             ELSE NoError


(***************************************************************************)
(* shared/errors.ts: the classified errors and the keyword helpers.        *)
(***************************************************************************)
\* { app, ...details } and { timeout, ...details }: the spread fields win
spread(first, details) == details @@ first

PermissionError(app, details) ==
    MacOSMCPError("PermissionError",
        "Permission denied for \"" \o app
            \o "\". Please grant access in System Settings > Privacy & Security > Automation",
        "PERMISSION_DENIED", spread([app |-> app], details))

AppNotFoundError(app, details) ==
    MacOSMCPError("AppNotFoundError",
        "Application not found: \"" \o app \o "\". Please ensure it is installed.",
        "APP_NOT_FOUND", spread([app |-> app], details))

ExecutionTimeoutError(ms, details) ==
    MacOSMCPError("ExecutionTimeoutError",
        "Script execution timed out after " \o ToString(ms) \o "ms",
        "EXECUTION_TIMEOUT", spread([timeout |-> ms], details))

ScriptExecutionError(message, details) ==
    MacOSMCPError("ScriptExecutionError", message, "SCRIPT_EXECUTION_ERROR", details)

permissionKeywords ==
    << "not allowed", "authorization", "not authorized", "permission denied",
       "access denied", "not permitted" >>

notFoundKeywords ==
    << "application isn't running", "application is not running",
       "can't get application", "no application" >>

isPermissionError(errorMessage) ==
    LET lowerMessage == toLowerCase(errorMessage)
    IN  \E k \in 1..Len(permissionKeywords) : includes(lowerMessage, permissionKeywords[k])

isAppNotFoundError(errorMessage) ==
    LET lowerMessage == toLowerCase(errorMessage)
    IN  \E k \in 1..Len(notFoundKeywords) : includes(lowerMessage, notFoundKeywords[k])

(***************************************************************************)
(* Values a catch block can receive.  type is what instanceof and typeof   *)
(* tell apart; source records who threw (the validator, the engine         *)
(* promise, the timer of timeout()).                                       *)
(***************************************************************************)
NothingThrown ==
    [type |-> "none", source |-> "none", message |-> "", num |-> 0, err |-> NoError]

ThrownMCP(e, source) ==
    [type |-> "MacOSMCPError", source |-> source, message |-> e.message, num |-> 0, err |-> e]

ThrownError(m, source) ==
    [type |-> "Error", source |-> source, message |-> m, num |-> 0, err |-> NoError]

ThrownString(s, source) ==
    [type |-> "string", source |-> source, message |-> s, num |-> 0, err |-> NoError]

ThrownNumber(n, source) ==
    [type |-> "number", source |-> source, message |-> "", num |-> n, err |-> NoError]

instanceofError(e) == e.type \in {"MacOSMCPError", "Error"}

\* String(error) of a value that is not an Error
String(e) == IF e.type = "number" THEN ToString(e.num) ELSE e.message

(***************************************************************************)
(* executor/applescript.ts: executeScript.                                 *)
(***************************************************************************)
DEFAULT_TIMEOUT == 30000

\* scriptTimeout that ignores ctx.timeout
scriptTimeout_ignoresCtx(c) == DEFAULT_TIMEOUT

\* ctx.timeout is optional: the empty set when absent, {ms} when given
scriptTimeout(c) ==
    IF c.timeout = {} THEN DEFAULT_TIMEOUT ELSE CHOOSE ms \in c.timeout : TRUE

\* the errorMessage argument executeScript passes to timeout()
timeoutMessage(c) ==
    "Script execution timed out after " \o ToString(scriptTimeout(c)) \o "ms"

\* the catch block without its instanceof MacOSMCPError re-throw
catchBlock_rewrap(e, c, elapsed) ==
    LET errorMessage == IF instanceofError(e) THEN e.message ELSE String(e)
    IN  IF includes(errorMessage, "timed out") \/ includes(errorMessage, "Timeout")
        THEN ExecutionTimeoutError(scriptTimeout(c),
                                   [app |-> c.app, operation |-> c.operation])
        ELSE IF isPermissionError(errorMessage)
        THEN PermissionError(c.app,
                 [operation |-> c.operation, originalError |-> errorMessage])
        ELSE IF isAppNotFoundError(errorMessage)
        THEN AppNotFoundError(c.app,
                 [operation |-> c.operation, originalError |-> errorMessage])
        ELSE ScriptExecutionError(errorMessage,
                 [app |-> c.app, operation |-> c.operation, duration |-> elapsed])

\* the catch block testing the not-found keywords before the permission keywords
catchBlock_notFoundFirst(e, c, elapsed) ==
    IF e.type = "MacOSMCPError" THEN e.err
    ELSE
    LET errorMessage == IF instanceofError(e) THEN e.message ELSE String(e)
    IN  IF includes(errorMessage, "timed out") \/ includes(errorMessage, "Timeout")
        THEN ExecutionTimeoutError(scriptTimeout(c),
                                   [app |-> c.app, operation |-> c.operation])
        ELSE IF isAppNotFoundError(errorMessage)
        THEN AppNotFoundError(c.app,
                 [operation |-> c.operation, originalError |-> errorMessage])
        ELSE IF isPermissionError(errorMessage)
        THEN PermissionError(c.app,
                 [operation |-> c.operation, originalError |-> errorMessage])
        ELSE ScriptExecutionError(errorMessage,
                 [app |-> c.app, operation |-> c.operation, duration |-> elapsed])

\* the catch block re-throwing as it is a caught value that is not an Error
catchBlock_rawNonError(e, c, elapsed) ==
    IF e.type = "MacOSMCPError" THEN e.err
    ELSE IF ~instanceofError(e)
    THEN [name |-> "", message |-> String(e), code |-> "", details |-> NoDetails]
    ELSE
    LET errorMessage == e.message
    IN  IF includes(errorMessage, "timed out") \/ includes(errorMessage, "Timeout")
        THEN ExecutionTimeoutError(scriptTimeout(c),
                                   [app |-> c.app, operation |-> c.operation])
        ELSE IF isPermissionError(errorMessage)
        THEN PermissionError(c.app,
                 [operation |-> c.operation, originalError |-> errorMessage])
        ELSE IF isAppNotFoundError(errorMessage)
        THEN AppNotFoundError(c.app,
                 [operation |-> c.operation, originalError |-> errorMessage])
        ELSE ScriptExecutionError(errorMessage,
                 [app |-> c.app, operation |-> c.operation, duration |-> elapsed])

\* the catch block: the error executeScript throws for the value e it caught
catchBlock(e, c, elapsed) ==
    IF e.type = "MacOSMCPError" THEN e.err
    ELSE
    LET errorMessage == IF instanceofError(e) THEN e.message ELSE String(e)
    IN  IF includes(errorMessage, "timed out") \/ includes(errorMessage, "Timeout")
        THEN ExecutionTimeoutError(scriptTimeout(c),
                                   [app |-> c.app, operation |-> c.operation])
        ELSE IF isPermissionError(errorMessage)
        THEN PermissionError(c.app,
                 [operation |-> c.operation, originalError |-> errorMessage])
        ELSE IF isAppNotFoundError(errorMessage)
        THEN AppNotFoundError(c.app,
                 [operation |-> c.operation, originalError |-> errorMessage])
        ELSE ScriptExecutionError(errorMessage,
                 [app |-> c.app, operation |-> c.operation, duration |-> elapsed])

\* the timer of timeout(promise, ms, errorMessage) is due
deadline == startTime + scriptTimeout(ctx)

(***************************************************************************)
(* Inputs.                                                                 *)
(***************************************************************************)
okScript == "tell application \"Reminders\"\n  return \"success\"\nend tell"
shellScript == "tell application \"Reminders\"\n  do shell script \"rm -rf /\"\nend tell"
calendarScript == "tell application \"Calendar\"\n  -- do something\nend tell"
probeScript ==
    "tell application \"System Events\"\n  return (name of processes) contains \"Notes\"\nend tell"

ExecScripts == {okScript, shellScript, calendarScript, probeScript, ""}
ExecApps == {"Reminders", "Terminal", "System Events"}
Timeouts == {{}, {5}, {5000}}

Context(script, app, ms, skip) ==
    [script |-> script, app |-> app, operation |-> "test_operation",
     timeout |-> ms, skipValidation |-> skip]

\* calls that are validated, and calls that set skipValidation
ValidatedContexts ==
    {Context(s, a, t, FALSE) : s \in ExecScripts, a \in ExecApps, t \in Timeouts}

BypassContexts ==
    {Context(s, "System Events", t, TRUE) : s \in {probeScript, shellScript}, t \in Timeouts}

Contexts == ValidatedContexts \cup BypassContexts

NoContext == Context("", "", {}, FALSE)

\* what runAppleScript can resolve with
EngineOutputs == {"success", "true\n"}

\* what runAppleScript can reject with
EngineFailures ==
    { ThrownError("Reminders got an error: AppleEvent timed out. (-1712)", "engine"),
      ThrownError("Connection Timeout", "engine"),
      ThrownError("request timeout", "engine"),
      ThrownError("Not authorized to send Apple events to Reminders.", "engine"),
      ThrownError("execution error: NOT PERMITTED", "engine"),
      ThrownError("Reminders got an error: Application isn't running. (-600)", "engine"),
      ThrownError("Can't get application \"Reminders\": access not allowed", "engine"),
      ThrownError("syntax error: Expected end of line but found identifier. (-2741)", "engine"),
      ThrownError("", "engine"),
      ThrownString("permission denied", "engine"),
      ThrownString("boom", "engine"),
      ThrownNumber(42, "engine") }

Deltas == {1, 5}

(***************************************************************************)
(* index.ts: the configuration main() reads from the environment.          *)
(***************************************************************************)
NoEnvironment == [SCRIPT_TIMEOUT |-> {}, ENABLE_SECURITY_VALIDATION |-> {}]

\* SCRIPT_TIMEOUT is unset, or set as the README's troubleshooting section
\* advises; ENABLE_SECURITY_VALIDATION is unset, "true" or "false"
Environments ==
    { NoEnvironment,
      [SCRIPT_TIMEOUT |-> {"60000"}, ENABLE_SECURITY_VALIDATION |-> {}],
      [SCRIPT_TIMEOUT |-> {}, ENABLE_SECURITY_VALIDATION |-> {"true"}],
      [SCRIPT_TIMEOUT |-> {}, ENABLE_SECURITY_VALIDATION |-> {"false"}] }

\* process.env['SCRIPT_TIMEOUT'] || '30000', the value main() logs
scriptTimeoutSetting(e) ==
    IF e.SCRIPT_TIMEOUT = {} \/ e.SCRIPT_TIMEOUT = {""} THEN "30000"
    ELSE CHOOSE v \in e.SCRIPT_TIMEOUT : TRUE

\* process.env['ENABLE_SECURITY_VALIDATION'] !== 'false', the value main() logs
securityValidationSetting(e) == e.ENABLE_SECURITY_VALIDATION # {"false"}

(***************************************************************************)
(* executor/applescript.ts: testAppAccess and isAppRunning.                *)
(***************************************************************************)
ProbeApps == {"Reminders", "Terminal"}

\* names given to isAppRunning: an application's name, or any other string
RunningApps == ProbeApps \cup {"Notes\" & (do shell script \"id\") & \""}

testScript(appName) ==
    trim("\ntell application \"" \o appName \o "\"\n  return \"success\"\nend tell\n  ")

\* testAppAccess's call with validation skipped
testAppAccessContext_skipValidation(appName) ==
    [script |-> testScript(appName), app |-> appName, operation |-> "test_access",
     timeout |-> {5000}, skipValidation |-> TRUE]

testAppAccessContext(appName) ==
    [script |-> testScript(appName), app |-> appName, operation |-> "test_access",
     timeout |-> {5000}, skipValidation |-> FALSE]

\* try { await executeScript(...); return true } catch { return false }
testAppAccessReturn(outcome) == outcome = "returned"

runningScript(appName) ==
    trim("\ntell application \"System Events\"\n  return (name of processes) contains \""
         \o appName \o "\"\nend tell\n  ")

isAppRunningContext(appName) ==
    [script |-> runningScript(appName), app |-> "System Events",
     operation |-> "check_running", timeout |-> {5000}, skipValidation |-> TRUE]

\* isAppRunning comparing the raw result
isAppRunningReturn_untrimmed(outcome, res) == outcome = "returned" /\ res = "true"

\* try { ...; return result.trim() === 'true' } catch { return false }
isAppRunningReturn(outcome, res) == outcome = "returned" /\ trim(res) = "true"

\* what the awaiting function returns once executeScript has settled
answerOf(who, outcome, res) ==
    IF who = "testAppAccess" THEN {testAppAccessReturn(outcome)}
    ELSE IF who = "isAppRunning" THEN {isAppRunningReturn(outcome, res)}
    ELSE {}

(***************************************************************************)
(* The execution wrapper as a state machine: one executeScript call, the   *)
(* engine promise and the timer it races against, and the clock.           *)
(***************************************************************************)
\* no function or tool handler under study, no concurrent calls
NoInput == ""
NoOutput == ""
NoCalls == <<>>
NoCalendar == {}
NoRetry == [attempt |-> 0, currentDelay |-> 0, fnCalls |-> 0, errors |-> <<>>, delays |-> <<>>]

Init ==
    /\ ctx = NoContext
    /\ pc = "idle"
    /\ now = 0
    /\ ticks = 0
    /\ startTime = 0
    /\ engine = "notInvoked"
    /\ engineCalls = 0
    /\ thrown = NothingThrown
    /\ duration = 0
    /\ timer = "unset"
    /\ result = ""
    /\ error = NoError
    /\ env = NoEnvironment
    /\ calendar = NoCalendar
    /\ retrying = NoRetry
    /\ caller = "none"
    /\ answer = {}
    /\ applied = {}
    /\ input = NoInput
    /\ output = NoOutput
    /\ calls = NoCalls

\* executeScript(c) up to its first await, called by who: validation, then
\* runAppleScript raced against the timer; a rejection goes straight to the
\* catch block, and from there to who awaits the call.
Begin(c, who) ==
    LET verdict == IF ~c.skipValidation THEN validateScript(c.script, c.app)
                   ELSE NoError
    IN  /\ ctx' = c
        /\ caller' = who
        /\ startTime' = now
        /\ IF verdict # NoError
           THEN /\ thrown' = ThrownMCP(verdict, "validator")
                /\ duration' = now - startTime'
                /\ error' = catchBlock(ThrownMCP(verdict, "validator"), c, duration')
                /\ pc' = "threw"
                /\ answer' = answerOf(who, "threw", result)
                /\ UNCHANGED <<engine, engineCalls, timer>>
           ELSE /\ engine' = "pending"
                /\ engineCalls' = engineCalls + 1
                /\ timer' = "armed"
                /\ pc' = "awaiting"
                /\ UNCHANGED <<thrown, duration, error, answer>>
        /\ UNCHANGED <<now, ticks, result, env, calendar, retrying, applied, input, output,
                       calls>>

ExecuteScript ==
    /\ pc = "idle"
    /\ \E c \in Contexts : Begin(c, "executeScript")

TestAppAccess ==
    /\ pc = "idle"
    /\ \E appName \in ProbeApps : Begin(testAppAccessContext(appName), "testAppAccess")

IsAppRunning ==
    /\ pc = "idle"
    /\ \E appName \in RunningApps : Begin(isAppRunningContext(appName), "isAppRunning")

\* the engine promise rejects and the wrapper runs the script again
EngineReject_retries ==
    /\ engine = "pending"
    /\ engineCalls' = engineCalls + 1
    /\ UNCHANGED <<ctx, pc, now, ticks, startTime, engine, thrown, duration, timer, result,
                   error, env, calendar, retrying, caller, answer, applied, input, output,
                   calls>>

\* the setTimeout callback also ends the engine invocation
TimerFire_terminates ==
    /\ timer = "armed"
    /\ now >= deadline
    /\ timer' = "fired"
    /\ engine' = IF engine = "pending" THEN "terminated" ELSE engine
    /\ IF pc = "awaiting"
       THEN /\ pc' = "threw"
            /\ thrown' = ThrownError(timeoutMessage(ctx), "timer")
            /\ duration' = now - startTime
            /\ error' = catchBlock(ThrownError(timeoutMessage(ctx), "timer"), ctx, duration')
            /\ answer' = answerOf(caller, "threw", result)
       ELSE UNCHANGED <<pc, thrown, duration, error, answer>>
    /\ UNCHANGED <<ctx, now, ticks, startTime, engineCalls, result, env, calendar, retrying,
                   caller, applied, input, output, calls>>

\* the engine promise resolves and its result replaces an outcome already
\* delivered
EngineResolve_overrides ==
    /\ engine = "pending"
    /\ engine' = "resolved"
    /\ applied' = applied \cup {ctx.script}
    /\ \E out \in EngineOutputs :
        /\ pc' = "returned"
        /\ duration' = now - startTime
        /\ result' = out
        /\ answer' = answerOf(caller, "returned", out)
    /\ UNCHANGED <<ctx, now, ticks, startTime, engineCalls, thrown, timer, error, env,
                   calendar, retrying, caller, input, output, calls>>

\* the engine promise resolves: the script has run to completion; the race
\* is decided if it was still open
EngineResolve ==
    /\ engine = "pending"
    /\ engine' = "resolved"
    /\ applied' = applied \cup {ctx.script}
    /\ \E out \in EngineOutputs :
        IF pc = "awaiting"
        THEN /\ pc' = "returned"
             /\ duration' = now - startTime
             /\ result' = out
             /\ answer' = answerOf(caller, "returned", out)
        ELSE UNCHANGED <<pc, duration, result, answer>>
    /\ UNCHANGED <<ctx, now, ticks, startTime, engineCalls, thrown, timer, error, env,
                   calendar, retrying, caller, input, output, calls>>

\* the engine promise rejects; the catch block runs if the race was still open
EngineReject ==
    /\ engine = "pending"
    /\ engine' = "rejected"
    /\ \E e \in EngineFailures :
        IF pc = "awaiting"
        THEN /\ pc' = "threw"
             /\ thrown' = e
             /\ duration' = now - startTime
             /\ error' = catchBlock(e, ctx, duration')
             /\ answer' = answerOf(caller, "threw", result)
        ELSE UNCHANGED <<pc, thrown, duration, error, answer>>
    /\ UNCHANGED <<ctx, now, ticks, startTime, engineCalls, timer, result, env, calendar,
                   retrying, caller, applied, input, output, calls>>

\* the setTimeout callback of timeout(): rejects the race if it is still
\* open; the engine promise is left as it is
TimerFire ==
    /\ timer = "armed"
    /\ now >= deadline
    /\ timer' = "fired"
    /\ IF pc = "awaiting"
       THEN /\ pc' = "threw"
            /\ thrown' = ThrownError(timeoutMessage(ctx), "timer")
            /\ duration' = now - startTime
            /\ error' = catchBlock(ThrownError(timeoutMessage(ctx), "timer"), ctx, duration')
            /\ answer' = answerOf(caller, "threw", result)
       ELSE UNCHANGED <<pc, thrown, duration, error, answer>>
    /\ UNCHANGED <<ctx, now, ticks, startTime, engine, engineCalls, result, env, calendar,
                   retrying, caller, applied, input, output, calls>>

\* time passes; a due timer fires before time passes its deadline
Tick ==
    /\ ticks < MaxTicks
    /\ \E t \in {now + d : d \in Deltas} \cup (IF timer = "armed" THEN {deadline} ELSE {}) :
        /\ t > now
        /\ timer = "armed" => t <= deadline
        /\ now' = t
    /\ ticks' = ticks + 1
    /\ UNCHANGED <<ctx, pc, startTime, engine, engineCalls, thrown, duration, timer, result,
                   error, env, calendar, retrying, caller, answer, applied, input, output,
                   calls>>

Next ==
    \/ ExecuteScript
    \/ TestAppAccess
    \/ IsAppRunning
    \/ EngineResolve
    \/ EngineReject
    \/ TimerFire
    \/ Tick

Spec == Init /\ [][Next]_vars

(***************************************************************************)
(* The same wrapper started under each environment, for the calls that     *)
(* give no timeout of their own.                                           *)
(***************************************************************************)
DefaultContexts == {c \in Contexts : c.timeout = {}}

InitConfig ==
    /\ ctx = NoContext
    /\ pc = "idle"
    /\ now = 0
    /\ ticks = 0
    /\ startTime = 0
    /\ engine = "notInvoked"
    /\ engineCalls = 0
    /\ thrown = NothingThrown
    /\ duration = 0
    /\ timer = "unset"
    /\ result = ""
    /\ error = NoError
    /\ env \in Environments
    /\ calendar = NoCalendar
    /\ retrying = NoRetry
    /\ caller = "none"
    /\ answer = {}
    /\ applied = {}
    /\ input = NoInput
    /\ output = NoOutput
    /\ calls = NoCalls

ExecuteScriptDefault ==
    /\ pc = "idle"
    /\ \E c \in DefaultContexts : Begin(c, "executeScript")

NextConfig ==
    \/ ExecuteScriptDefault
    \/ EngineResolve
    \/ EngineReject
    \/ TimerFire
    \/ Tick

SpecConfig == InitConfig /\ [][NextConfig]_vars

(***************************************************************************)
(* The validator alone, on scripts assembled from fragments.               *)
(***************************************************************************)
Fragments ==
    { "tell application \"Reminders\"",
      "TELL  application 'reminders'",
      "tell application \"Calendar\"",
      "tell application \"Terminal\"",
      "tell application \"",
      "\"",
      "\n",
      " do shell script \"rm -rf /\"",
      " SUDO ",
      "set x to 5" }

RECURSIVE Assembled(_)
Assembled(n) ==
    IF n = 0 THEN {""}
    ELSE LET shorter == Assembled(n - 1)
         IN  shorter \cup {s \o f : s \in shorter, f \in Fragments}

\* scripts at the length ceiling: exactly maxLength, one more, and blank
LongScripts ==
    { "tell application \"Reminders\"" \o repeat("a", maxLength - 28),
      "tell application \"Reminders\"" \o repeat("a", maxLength - 27),
      repeat(" ", maxLength + 1) }

ValidatorScripts == Assembled(MaxFrags) \cup LongScripts

DeclaredApps == {"Reminders", "Calendar", "reminders", "Terminal"}

InitValidator ==
    /\ ctx \in {Context(s, a, {}, FALSE) : s \in ValidatorScripts, a \in DeclaredApps}
    /\ pc = "idle"
    /\ now = 0
    /\ ticks = 0
    /\ startTime = 0
    /\ engine = "notInvoked"
    /\ engineCalls = 0
    /\ thrown = NothingThrown
    /\ duration = 0
    /\ timer = "unset"
    /\ result = ""
    /\ error = NoError
    /\ env = NoEnvironment
    /\ calendar = NoCalendar
    /\ retrying = NoRetry
    /\ caller = "none"
    /\ answer = {}
    /\ applied = {}
    /\ input = NoInput
    /\ output = NoOutput
    /\ calls = NoCalls

\* validateScript(ctx.script, ctx.app): error is what it throws, NoError if it returns
Validate ==
    /\ pc = "idle"
    /\ pc' = "validated"
    /\ error' = validateScript(ctx.script, ctx.app)
    /\ UNCHANGED <<ctx, now, ticks, startTime, engine, engineCalls, thrown, duration, timer,
                   result, env, calendar, retrying, caller, answer, applied, input, output,
                   calls>>

NextValidator == Validate

SpecValidator == InitValidator /\ [][NextValidator]_vars

(***************************************************************************)
(* shared/utils.ts: escapeAppleScriptString, applied to every string over  *)
(* a small alphabet.                                                       *)
(***************************************************************************)
\* String.prototype.replace(/c/g, to) for a pattern of one character
RECURSIVE replaceAll(_, _, _)
replaceAll(s, from, to) ==
    IF Len(s) = 0 THEN ""
    ELSE IF Len(s) = 1 THEN (IF s = from THEN to ELSE s)
    ELSE LET h == Len(s) \div 2
         IN  replaceAll(SubSeq(s, 1, h), from, to)
                \o replaceAll(SubSeq(s, h + 1, Len(s)), from, to)

\* the two replacements in the other order
escapeAppleScriptString_quotesFirst(inp) ==
    replaceAll(replaceAll(inp, "\"", "\\\""), "\\", "\\\\")

escapeAppleScriptString(inp) ==
    replaceAll(replaceAll(inp, "\\", "\\\\"), "\"", "\\\"")

\* the executor is untouched: no call, no engine invocation, no timer
Quiescent ==
    /\ ctx = NoContext
    /\ now = 0
    /\ ticks = 0
    /\ startTime = 0
    /\ engine = "notInvoked"
    /\ engineCalls = 0
    /\ thrown = NothingThrown
    /\ duration = 0
    /\ timer = "unset"
    /\ result = ""
    /\ error = NoError
    /\ env = NoEnvironment
    /\ calendar = NoCalendar
    /\ retrying = NoRetry
    /\ caller = "none"
    /\ answer = {}
    /\ applied = {}
    /\ calls = NoCalls

EscChars == {"a", "\"", "\\", "\n"}

\* the strings over EscChars of length at most n
RECURSIVE Texts(_)
Texts(n) ==
    IF n = 0 THEN {""}
    ELSE LET shorter == Texts(n - 1)
         IN  shorter \cup {t \o c : t \in shorter, c \in EscChars}

InitEscape ==
    /\ Quiescent
    /\ pc = "idle"
    /\ input \in Texts(MaxEscLen)
    /\ output = NoOutput

Escape ==
    /\ pc = "idle"
    /\ pc' = "escaped"
    /\ output' = escapeAppleScriptString(input)
    /\ UNCHANGED <<ctx, now, ticks, startTime, engine, engineCalls, thrown, duration, timer,
                   result, error, env, calendar, retrying, caller, answer, applied, input,
                   calls>>

NextEscape == Escape

SpecEscape == InitEscape /\ [][NextEscape]_vars

(***************************************************************************)
(* apps/reminders/index.ts: parseReminderOutput, applied to the text the   *)
(* list script of apps/reminders/scripts.ts returns for a list of          *)
(* reminders.                                                              *)
(***************************************************************************)
\* String.prototype.split(separator), for a separator that is not empty
RECURSIVE split(_, _)
split(s, sep) ==
    LET n == Len(sep)
        hits == {i \in 1..(Len(s) - n + 1) : SubSeq(s, i, i + n - 1) = sep}
    IN  IF hits = {} THEN <<s>>
        ELSE LET i == CHOOSE h \in hits : \A g \in hits : h <= g
             IN  <<SubSeq(s, 1, i - 1)>> \o split(SubSeq(s, i + n, Len(s)), sep)

IsDigit(c) == c \in {"0", "1", "2", "3", "4", "5", "6", "7", "8", "9"}

digitValue(c) == CHOOSE d \in 0..9 : ToString(d) = c

\* the number a string of decimal digits denotes
RECURSIVE decimal(_)
decimal(s) ==
    IF s = "" THEN 0
    ELSE 10 * decimal(SubSeq(s, 1, Len(s) - 1)) + digitValue(Char(s, Len(s)))

\* parseInt(s, 10): {} is NaN, {n} the integer n
parseInt(s) ==
    LET start == SpaceRunEnd(s, 1)
        signed == start <= Len(s) /\ Char(s, start) \in {"+", "-"}
        first == IF signed THEN start + 1 ELSE start
        stop == CHOOSE j \in first..(Len(s) + 1) :
                    /\ \A k \in first..(j - 1) : IsDigit(Char(s, k))
                    /\ j = Len(s) + 1 \/ ~IsDigit(Char(s, j))
        magnitude == decimal(SubSeq(s, first, stop - 1))
    IN  IF stop = first THEN {}
        ELSE IF signed /\ Char(s, start) = "-" THEN {0 - magnitude} ELSE {magnitude}

\* every comparison with NaN is false
appleScriptToPriority(value) ==
    IF \E v \in value : v >= 9 THEN "high"
    ELSE IF \E v \in value : v >= 5 THEN "medium"
    ELSE IF \E v \in value : v >= 1 THEN "low"
    ELSE "none"

\* x || undefined, for a string x
orUndefined(x) == IF x = "" THEN {} ELSE {x}

\* the Reminder pushed for the parts of one line
reminderFrom(parts) ==
    [id |-> parts[1],
     title |-> parts[2],
     list |-> parts[8],
     completed |-> parts[3] = "true",
     priority |-> appleScriptToPriority(parseInt(IF parts[4] = "" THEN "0" ELSE parts[4])),
     flagged |-> parts[5] = "true",
     notes |-> orUndefined(parts[6]),
     dueDate |-> orUndefined(parts[7])]

IsTruthy(line) == line # ""

HasEightParts(line) == Len(split(line, "||")) >= 8

parseReminderOutput(out) ==
    LET lines == SelectSeq(split(trim(out), "\\n"), IsTruthy)
        kept == SelectSeq(lines, HasEightParts)
    IN  [i \in 1..Len(kept) |-> reminderFrom(split(kept[i], "||"))]

\* AppleScript's `list as text` under text item delimiters sep
RECURSIVE asText(_, _)
asText(list, sep) ==
    IF Len(list) = 0 THEN ""
    ELSE IF Len(list) = 1 THEN list[1]
    ELSE list[1] \o sep \o asText(Tail(list), sep)

\* the text the list script returns for these reminders: one item per
\* reminder, its eight properties joined by "||", the items joined by the
\* newline that "\n" denotes in the script
outputText(reminders) ==
    asText([i \in 1..Len(reminders) |-> asText(reminders[i], "||")], "\n")

\* (id, name, completed, priority, flagged, body, due date, list name)
ListedReminders ==
    { <<"x-apple-reminder://1", "Buy milk", "false", "0", "false", "", "", "Reminders">>,
      <<"x-apple-reminder://2", "say \"hi\"", "true", "9", "true", "a\\b",
        "1/2/25 9:00:00 AM", "Work">>,
      <<"x-apple-reminder://3", "Plan", "false", "5", "false", "see C:\\new", "", "Work">>,
      <<"x-apple-reminder://4", "Call", "false", "1", "true", "soon", "", "Home">> }

\* the lists of at most n reminders
RECURSIVE ReminderLists(_)
ReminderLists(n) ==
    IF n = 0 THEN {<<>>}
    ELSE LET shorter == ReminderLists(n - 1)
         IN  shorter \cup {Append(l, r) : l \in shorter, r \in ListedReminders}

InitParser ==
    /\ ctx = NoContext
    /\ pc = "idle"
    /\ now = 0
    /\ ticks = 0
    /\ startTime = 0
    /\ engine = "notInvoked"
    /\ engineCalls = 0
    /\ thrown = NothingThrown
    /\ duration = 0
    /\ timer = "unset"
    /\ result = ""
    /\ error = NoError
    /\ env = NoEnvironment
    /\ calendar = NoCalendar
    /\ retrying = NoRetry
    /\ caller = "none"
    /\ answer = {}
    /\ applied = {}
    /\ input \in ReminderLists(MaxRecords)
    /\ output = NoOutput
    /\ calls = NoCalls

\* the reminders_list handler from the result of executeScript on:
\* result is the engine's text for the reminders of input
ParseReminderOutput ==
    /\ pc = "idle"
    /\ pc' = "parsed"
    /\ result' = outputText(input)
    /\ output' = parseReminderOutput(result')
    /\ UNCHANGED <<ctx, now, ticks, startTime, engine, engineCalls, thrown, duration, timer,
                   error, env, calendar, retrying, caller, answer, applied, input, calls>>

NextParser == ParseReminderOutput

SpecParser == InitParser /\ [][NextParser]_vars

(***************************************************************************)
(* The tool handlers of apps/reminders and apps/notes up to the verdict of *)
(* validateScript: the input schema, the script generator, and the call of *)
(* executeScript with the generated script.  Inputs carry no dueDate.      *)
(***************************************************************************)
\* the value of an optional field that is present
The(opt) == CHOOSE v \in opt : TRUE

\* zod's .default(d)
Default(opt, d) == IF opt = {} THEN d ELSE The(opt)

\* AddReminderInputSchema.parse: {} when it throws, {the parsed input} otherwise
AddReminderInputSchema(a) ==
    IF /\ Len(a.title) >= 1
       /\ Len(a.title) <= 500
       /\ \A n \in a.notes : Len(n) <= 5000
       /\ \A q \in a.priority : q \in {"none", "low", "medium", "high"}
    THEN {[title |-> a.title, list |-> Default(a.list, "Reminders"), notes |-> a.notes,
           priority |-> Default(a.priority, "none"), flagged |-> Default(a.flagged, FALSE)]}
    ELSE {}

CreateNoteInputSchema(a) ==
    IF /\ Len(a.title) >= 1
       /\ Len(a.title) <= 500
       /\ Len(a.body) <= 100000
    THEN {[title |-> a.title, body |-> a.body, folder |-> Default(a.folder, "Notes")]}
    ELSE {}

\* a string that is present and not empty
IsGiven(opt) == \E v \in opt : v # ""

AppendNoteInputSchema(a) ==
    IF /\ Len(a.content) >= 1
       /\ Len(a.content) <= 100000
       /\ IsGiven(a.noteId) \/ IsGiven(a.title)
    THEN {[noteId |-> a.noteId, title |-> a.title, folder |-> a.folder,
           content |-> a.content]}
    ELSE {}

\* priorityMap with high: 5
priorityToAppleScript_highAsMedium(priority) ==
    CASE priority = "none" -> 0
      [] priority = "low" -> 1
      [] priority = "medium" -> 5
      [] priority = "high" -> 5
      [] OTHER -> 0

priorityToAppleScript(priority) ==
    CASE priority = "none" -> 0
      [] priority = "low" -> 1
      [] priority = "medium" -> 5
      [] priority = "high" -> 9
      [] OTHER -> 0

\* `${b}` for a boolean b
booleanText(b) == IF b THEN "true" ELSE "false"

generateAddReminderScript(p) ==
    LET sanitizedTitle == escapeAppleScriptString(p.title)
        sanitizedList == escapeAppleScriptString(p.list)
        priorityValue == ToString(priorityToAppleScript(p.priority))
        head ==
            "\n"
            \o "tell application \"Reminders\"\n"
            \o "    set targetList to list \"" \o sanitizedList \o "\"\n"
            \o "    set newReminder to make new reminder at end of targetList\n"
            \o "    set name of newReminder to \"" \o sanitizedTitle \o "\"\n"
            \o "    set priority of newReminder to " \o priorityValue \o "\n"
            \o "    set flagged of newReminder to " \o booleanText(p.flagged) \o "\n"
        body ==
            IF IsGiven(p.notes)
            THEN "    set body of newReminder to \""
                    \o escapeAppleScriptString(The(p.notes)) \o "\"\n"
            ELSE ""
        tail ==
            "\n"
            \o "    return id of newReminder & \"|\" & name of newReminder & \"|\" & name of targetList\n"
            \o "end tell\n"
            \o "  "
    IN  trim(head \o body \o tail)

generateCreateNoteScript(p) ==
    LET sanitizedTitle == escapeAppleScriptString(p.title)
        sanitizedBody == escapeAppleScriptString(p.body)
        sanitizedFolder == escapeAppleScriptString(p.folder)
        fullContent == "<h1>" \o sanitizedTitle \o "</h1><div>" \o sanitizedBody \o "</div>"
    IN  trim("\n"
            \o "tell application \"Notes\"\n"
            \o "    set targetFolder to folder \"" \o sanitizedFolder \o "\"\n"
            \o "    set newNote to make new note at targetFolder with properties {body:\""
            \o fullContent \o "\"}\n"
            \o "    return id of newNote & \"|\" & name of newNote & \"|\" & name of targetFolder\n"
            \o "end tell\n"
            \o "  ")

generateAppendNoteScript(p) ==
    LET sanitizedContent == escapeAppleScriptString(p.content)
    IN  IF IsGiven(p.noteId)
        THEN LET sanitizedId == escapeAppleScriptString(The(p.noteId))
             IN  trim("\n"
                    \o "tell application \"Notes\"\n"
                    \o "    set targetNote to note id \"" \o sanitizedId \o "\"\n"
                    \o "    set currentBody to body of targetNote\n"
                    \o "    set body of targetNote to currentBody & \"<div>"
                    \o sanitizedContent \o "</div>\"\n"
                    \o "    return id of targetNote & \"|\" & name of targetNote\n"
                    \o "end tell\n"
                    \o "    ")
        ELSE LET sanitizedTitle == escapeAppleScriptString(The(p.title))
             IN  IF IsGiven(p.folder)
                 THEN LET sanitizedFolder == escapeAppleScriptString(The(p.folder))
                      IN  trim("\n"
                            \o "tell application \"Notes\"\n"
                            \o "    set targetFolder to folder \"" \o sanitizedFolder \o "\"\n"
                            \o "    set matchingNotes to (notes of targetFolder whose name is \""
                            \o sanitizedTitle \o "\")\n"
                            \o "\n"
                            \o "    if (count of matchingNotes) > 0 then\n"
                            \o "        set targetNote to item 1 of matchingNotes\n"
                            \o "        set currentBody to body of targetNote\n"
                            \o "        set body of targetNote to currentBody & \"<div>"
                            \o sanitizedContent \o "</div>\"\n"
                            \o "        return id of targetNote & \"|\" & name of targetNote\n"
                            \o "    else\n"
                            \o "        error \"No note found with title: " \o sanitizedTitle
                            \o " in folder " \o sanitizedFolder \o "\"\n"
                            \o "    end if\n"
                            \o "end tell\n"
                            \o "      ")
                 ELSE trim("\n"
                        \o "tell application \"Notes\"\n"
                        \o "    set allFolders to folders\n"
                        \o "    set folderCount to count of allFolders\n"
                        \o "\n"
                        \o "    repeat with i from 1 to folderCount\n"
                        \o "        set fld to item i of allFolders\n"
                        \o "        set matchingNotes to (notes of fld whose name is \""
                        \o sanitizedTitle \o "\")\n"
                        \o "\n"
                        \o "        if (count of matchingNotes) > 0 then\n"
                        \o "            set targetNote to item 1 of matchingNotes\n"
                        \o "            set currentBody to body of targetNote\n"
                        \o "            set body of targetNote to currentBody & \"<div>"
                        \o sanitizedContent \o "</div>\"\n"
                        \o "            return id of targetNote & \"|\" & name of targetNote\n"
                        \o "        end if\n"
                        \o "    end repeat\n"
                        \o "\n"
                        \o "    error \"No note found with title: " \o sanitizedTitle \o "\"\n"
                        \o "end tell\n"
                        \o "      ")

\* tool arguments
Titles == {"Task", "say \"hi\"", "Learn python", ""}
FreeTexts == {"Buy milk", "say \"hi\"", "C:\\new", "line1\nline2"}
Priorities == {"none", "low", "medium", "high"}

\* the longest body of a note titled "Task" in the default folder whose
\* script passes the length check
LargestAcceptedBody ==
    maxLength - Len(generateCreateNoteScript([title |-> "Task", body |-> "", folder |-> "Notes"]))

LongBodyLengths == {LargestAcceptedBody, LargestAcceptedBody + 1, 100000, 100001}

Optional(S) == {{}} \cup {{x} : x \in S}

AddReminderInputs ==
    {[tool |-> "reminders_add",
      args |-> [title |-> t, list |-> l, notes |-> n, priority |-> q, flagged |-> f]] :
        t \in Titles, l \in Optional({"Work"}), n \in Optional(FreeTexts),
        q \in Optional(Priorities), f \in Optional({TRUE})}

CreateNoteInputs ==
    {[tool |-> "notes_create", args |-> [title |-> t, body |-> b, folder |-> f]] :
        t \in Titles, b \in FreeTexts \cup {""}, f \in Optional({"Work"})}
    \cup
    {[tool |-> "notes_create",
      args |-> [title |-> "Task", body |-> repeat("a", n), folder |-> {}]] :
        n \in LongBodyLengths}

AppendNoteInputs ==
    {[tool |-> "notes_append",
      args |-> [noteId |-> i, title |-> t, folder |-> f, content |-> c]] :
        i \in Optional({"x-coredata://1"}), t \in Optional({"Task"}),
        f \in Optional({"Work"}), c \in FreeTexts \cup {""}}
    \cup
    {[tool |-> "notes_append",
      args |-> [noteId |-> {"x-coredata://1"}, title |-> {}, folder |-> {},
                content |-> repeat("a", 100000)]]}

ToolInputs == AddReminderInputs \cup CreateNoteInputs \cup AppendNoteInputs

InitGenerators ==
    /\ ctx = NoContext
    /\ pc = "idle"
    /\ now = 0
    /\ ticks = 0
    /\ startTime = 0
    /\ engine = "notInvoked"
    /\ engineCalls = 0
    /\ thrown = NothingThrown
    /\ duration = 0
    /\ timer = "unset"
    /\ result = ""
    /\ error = NoError
    /\ env = NoEnvironment
    /\ calendar = NoCalendar
    /\ retrying = NoRetry
    /\ caller = "none"
    /\ answer = {}
    /\ applied = {}
    /\ input \in ToolInputs
    /\ output = NoOutput
    /\ calls = NoCalls

\* a handler from schema.parse to the validation inside executeScript: the
\* schema rejects the arguments, or the script is generated and handed to
\* executeScript, whose validateScript verdict is error
Handle(parsed, script, app, operation) ==
    /\ IF parsed = {}
       THEN /\ pc' = "invalid"
            /\ UNCHANGED <<ctx, output, error>>
       ELSE /\ pc' = "generated"
            /\ output' = script
            /\ ctx' = [script |-> script, app |-> app, operation |-> operation,
                       timeout |-> {10000}, skipValidation |-> FALSE]
            /\ error' = validateScript(script, app)
    /\ UNCHANGED <<now, ticks, startTime, engine, engineCalls, thrown, duration, timer,
                   result, env, calendar, retrying, caller, answer, applied, input, calls>>

RemindersAdd ==
    /\ pc = "idle"
    /\ input.tool = "reminders_add"
    /\ LET parsed == AddReminderInputSchema(input.args)
       IN  Handle(parsed, generateAddReminderScript(The(parsed)), "Reminders", "add")

NotesCreate ==
    /\ pc = "idle"
    /\ input.tool = "notes_create"
    /\ LET parsed == CreateNoteInputSchema(input.args)
       IN  Handle(parsed, generateCreateNoteScript(The(parsed)), "Notes", "create")

NotesAppend ==
    /\ pc = "idle"
    /\ input.tool = "notes_append"
    /\ LET parsed == AppendNoteInputSchema(input.args)
       IN  Handle(parsed, generateAppendNoteScript(The(parsed)), "Notes", "append")

NextGenerators == RemindersAdd \/ NotesCreate \/ NotesAppend

SpecGenerators == InitGenerators /\ [][NextGenerators]_vars

(***************************************************************************)
(* Several executeScript calls in flight at once.  Each call is a record   *)
(* of what one invocation of the async function holds: its ctx, its        *)
(* startTime, its engine promise and its timer.  The calls share the       *)
(* clock and the target applications; the module keeps no other state.     *)
(***************************************************************************)
CallIds == 1..MaxCalls

NoResponse == [settled |-> FALSE, out |-> "", failure |-> NothingThrown]

IdleCall ==
    [ctx |-> NoContext, pc |-> "idle", startTime |-> 0, engine |-> "notInvoked",
     timer |-> "unset", thrown |-> NothingThrown, duration |-> 0, result |-> "",
     error |-> NoError, response |-> NoResponse]

\* executeScript(c) called at time t, up to its first await
begun(c, t) ==
    LET verdict == IF ~c.skipValidation THEN validateScript(c.script, c.app)
                   ELSE NoError
    IN  IF verdict # NoError
        THEN [IdleCall EXCEPT !.ctx = c, !.startTime = t, !.pc = "threw",
                              !.thrown = ThrownMCP(verdict, "validator"),
                              !.error = catchBlock(ThrownMCP(verdict, "validator"), c, 0)]
        ELSE [IdleCall EXCEPT !.ctx = c, !.startTime = t, !.pc = "awaiting",
                              !.engine = "pending", !.timer = "armed"]

\* the call's engine promise resolves with out at time t
resolved(k, out, t) ==
    LET settled == [k EXCEPT !.engine = "resolved",
                             !.response = [NoResponse EXCEPT !.settled = TRUE, !.out = out]]
    IN  IF k.pc = "awaiting"
        THEN [settled EXCEPT !.pc = "returned", !.duration = t - k.startTime, !.result = out]
        ELSE settled

\* the call's engine promise rejects with e at time t
rejected(k, e, t) ==
    LET settled == [k EXCEPT !.engine = "rejected",
                             !.response = [NoResponse EXCEPT !.settled = TRUE, !.failure = e]]
    IN  IF k.pc = "awaiting"
        THEN [settled EXCEPT !.pc = "threw", !.thrown = e, !.duration = t - k.startTime,
                             !.error = catchBlock(e, k.ctx, t - k.startTime)]
        ELSE settled

\* the call's timer fires at time t
timedOut(k, t) ==
    LET fired == [k EXCEPT !.timer = "fired"]
        e == ThrownError(timeoutMessage(k.ctx), "timer")
    IN  IF k.pc = "awaiting"
        THEN [fired EXCEPT !.pc = "threw", !.thrown = e, !.duration = t - k.startTime,
                           !.error = catchBlock(e, k.ctx, t - k.startTime)]
        ELSE fired

callDeadline(k) == k.startTime + scriptTimeout(k.ctx)

ConcurrentContexts ==
    {Context(okScript, "Reminders", {5}, FALSE), Context(shellScript, "Reminders", {5}, FALSE)}

ConcurrentFailures ==
    { ThrownError("Not authorized to send Apple events to Reminders.", "engine") }

\* the clock readings at which something happens
ClockReadings == {0, 1, 5, 6}

InitConcurrent ==
    /\ ctx = NoContext
    /\ pc = "idle"
    /\ now = 0
    /\ ticks = 0
    /\ startTime = 0
    /\ engine = "notInvoked"
    /\ engineCalls = 0
    /\ thrown = NothingThrown
    /\ duration = 0
    /\ timer = "unset"
    /\ result = ""
    /\ error = NoError
    /\ env = NoEnvironment
    /\ calendar = NoCalendar
    /\ retrying = NoRetry
    /\ caller = "none"
    /\ answer = {}
    /\ applied = {}
    /\ input = NoInput
    /\ output = NoOutput
    /\ calls = [i \in CallIds |-> IdleCall]

CallExecute(i) ==
    /\ calls[i].pc = "idle"
    /\ \E c \in ConcurrentContexts :
        /\ calls' = [calls EXCEPT ![i] = begun(c, now)]
        /\ engineCalls' = IF calls'[i].engine = "pending" THEN engineCalls + 1
                          ELSE engineCalls
    /\ UNCHANGED <<ctx, pc, now, ticks, startTime, engine, thrown, duration, timer, result,
                   error, env, calendar, retrying, caller, answer, applied, input, output>>

CallEngineResolve(i) ==
    /\ calls[i].engine = "pending"
    /\ \E out \in {"success"} : calls' = [calls EXCEPT ![i] = resolved(calls[i], out, now)]
    /\ applied' = applied \cup {calls[i].ctx.script}
    /\ UNCHANGED <<ctx, pc, now, ticks, startTime, engine, engineCalls, thrown, duration,
                   timer, result, error, env, calendar, retrying, caller, answer, input,
                   output>>

CallEngineReject(i) ==
    /\ calls[i].engine = "pending"
    /\ \E e \in ConcurrentFailures : calls' = [calls EXCEPT ![i] = rejected(calls[i], e, now)]
    /\ UNCHANGED <<ctx, pc, now, ticks, startTime, engine, engineCalls, thrown, duration,
                   timer, result, error, env, calendar, retrying, caller, answer, applied,
                   input, output>>

\* one timer for the module: when it fires, every call still waiting is rejected
CallTimerFire_shared(i) ==
    /\ calls[i].timer = "armed"
    /\ now >= callDeadline(calls[i])
    /\ calls' = [j \in CallIds |->
                    IF calls[j].timer = "armed" THEN timedOut(calls[j], now) ELSE calls[j]]
    /\ UNCHANGED <<ctx, pc, now, ticks, startTime, engine, engineCalls, thrown, duration,
                   timer, result, error, env, calendar, retrying, caller, answer, applied,
                   input, output>>

CallTimerFire(i) ==
    /\ calls[i].timer = "armed"
    /\ now >= callDeadline(calls[i])
    /\ calls' = [calls EXCEPT ![i] = timedOut(calls[i], now)]
    /\ UNCHANGED <<ctx, pc, now, ticks, startTime, engine, engineCalls, thrown, duration,
                   timer, result, error, env, calendar, retrying, caller, answer, applied,
                   input, output>>

\* time passes; a due timer fires before time passes its deadline
ConcurrentTick ==
    /\ \E t \in ClockReadings :
        /\ t > now
        /\ \A i \in CallIds : calls[i].timer = "armed" => t <= callDeadline(calls[i])
        /\ now' = t
    /\ UNCHANGED <<ctx, pc, ticks, startTime, engine, engineCalls, thrown, duration, timer,
                   result, error, env, calendar, retrying, caller, answer, applied, input,
                   output, calls>>

NextConcurrent ==
    \/ \E i \in CallIds : CallExecute(i)
    \/ \E i \in CallIds : CallEngineResolve(i)
    \/ \E i \in CallIds : CallEngineReject(i)
    \/ \E i \in CallIds : CallTimerFire(i)
    \/ ConcurrentTick

SpecConcurrent == InitConcurrent /\ [][NextConcurrent]_vars

(***************************************************************************)
(* shared/utils.ts: parseISODate and formatAppleScriptDate.  A Date is the *)
(* set holding its time value in whole seconds since the epoch, the empty  *)
(* set for an Invalid Date.  Date-time strings are of the form             *)
(* YYYY-MM-DDTHH:MM:SSZ, without fractional seconds, and the process runs  *)
(* in the UTC time zone.                                                   *)
(***************************************************************************)
isLeapYear(y) == (y % 4 = 0 /\ y % 100 # 0) \/ y % 400 = 0

daysInMonth(y, m) ==
    IF m = 2 THEN (IF isLeapYear(y) THEN 29 ELSE 28)
    ELSE IF m \in {4, 6, 9, 11} THEN 30 ELSE 31

\* days from 1 January 1970 to 1 January of year y
daysBeforeYear(y) ==
    365 * (y - 1970)
        + ((y - 1) \div 4 - 1969 \div 4)
        - ((y - 1) \div 100 - 1969 \div 100)
        + ((y - 1) \div 400 - 1969 \div 400)

RECURSIVE daysBeforeMonth(_, _)
daysBeforeMonth(y, m) ==
    IF m = 1 THEN 0 ELSE daysBeforeMonth(y, m - 1) + daysInMonth(y, m - 1)

\* /^\d{4}-\d{2}-\d{2}T\d{2}:\d{2}:\d{2}Z$/
dateTimeShape(s) ==
    /\ Len(s) = 20
    /\ \A i \in {1, 2, 3, 4, 6, 7, 9, 10, 12, 13, 15, 16, 18, 19} : IsDigit(Char(s, i))
    /\ Char(s, 5) = "-" /\ Char(s, 8) = "-" /\ Char(s, 11) = "T"
    /\ Char(s, 14) = ":" /\ Char(s, 17) = ":" /\ Char(s, 20) = "Z"

\* new Date(isoString): a string that is not of the date-time format, or
\* has a field out of range, gives an Invalid Date
NewDate(isoString) ==
    IF ~dateTimeShape(isoString) THEN {}
    ELSE LET y == decimal(SubSeq(isoString, 1, 4))
             m == decimal(SubSeq(isoString, 6, 7))
             d == decimal(SubSeq(isoString, 9, 10))
             hh == decimal(SubSeq(isoString, 12, 13))
             mm == decimal(SubSeq(isoString, 15, 16))
             ss == decimal(SubSeq(isoString, 18, 19))
         IN  IF /\ m \in 1..12
                /\ d >= 1
                /\ d <= daysInMonth(y, m)
                /\ hh <= 23 /\ mm <= 59 /\ ss <= 59
             THEN {((daysBeforeYear(y) + daysBeforeMonth(y, m) + d - 1) * 24 + hh) * 3600
                       + mm * 60 + ss}
             ELSE {}

\* what a function that may throw gives back: the Error it threw, or its value
Threw(message) == [threw |-> TRUE, message |-> message, value |-> "", date |-> {}]
Returned(value) == [threw |-> FALSE, message |-> "", value |-> value, date |-> {}]
ReturnedDate(date) == [threw |-> FALSE, message |-> "", value |-> "", date |-> date]

parseISODate(isoString) ==
    LET date == NewDate(isoString)
    IN  IF date = {} THEN Threw("Invalid date string: " \o isoString)
        ELSE ReturnedDate(date)

DayNames ==
    <<"Sunday", "Monday", "Tuesday", "Wednesday", "Thursday", "Friday", "Saturday">>

MonthNames ==
    <<"January", "February", "March", "April", "May", "June", "July", "August",
      "September", "October", "November", "December">>

twoDigits(n) == IF n < 10 THEN "0" \o ToString(n) ELSE ToString(n)

\* format(date, "EEEE, MMMM d, yyyy 'at' h:mm:ss a"); an Invalid Date makes
\* format throw a RangeError
formatAppleScriptDate(date) ==
    IF date = {} THEN Threw("Invalid time value")
    ELSE
    LET t == The(date)
        days == t \div 86400
        secs == t % 86400
        y == CHOOSE yy \in 1970..2100 :
                 daysBeforeYear(yy) <= days /\ days < daysBeforeYear(yy + 1)
        dayOfYear == days - daysBeforeYear(y)
        m == CHOOSE mm \in 1..12 :
                 /\ daysBeforeMonth(y, mm) <= dayOfYear
                 /\ dayOfYear < daysBeforeMonth(y, mm) + daysInMonth(y, mm)
        d == dayOfYear - daysBeforeMonth(y, m) + 1
        hour == secs \div 3600
        h == IF hour % 12 = 0 THEN 12 ELSE hour % 12
    IN  Returned(DayNames[((days + 4) % 7) + 1] \o ", " \o MonthNames[m] \o " "
                 \o ToString(d) \o ", " \o ToString(y) \o " at " \o ToString(h) \o ":"
                 \o twoDigits((secs % 3600) \div 60) \o ":" \o twoDigits(secs % 60)
                 \o (IF hour < 12 THEN " AM" ELSE " PM"))

(***************************************************************************)
(* apps/calendar: the calendar_update_event tool, from its schema to the   *)
(* validation inside executeScript.                                        *)
(***************************************************************************)
\* UpdateEventInputSchema.parse: {} when it throws, {the parsed input} otherwise
UpdateEventInputSchema(a) ==
    IF /\ Len(a.eventId) >= 1
       /\ \A t \in a.title : Len(t) >= 1 /\ Len(t) <= 500
       /\ \A s \in a.startDate : dateTimeShape(s)
       /\ \A s \in a.endDate : dateTimeShape(s)
       /\ \A l \in a.location : Len(l) <= 500
       /\ \A n \in a.notes : Len(n) <= 5000
    THEN {a}
    ELSE {}

\* the statement setting a date property, or what parsing or formatting threw
dateStatement(property, isoString, parsed) ==
    IF parsed.threw THEN parsed
    ELSE LET formatted == formatAppleScriptDate(parsed.date)
         IN  IF formatted.threw THEN formatted
             ELSE Returned("    set " \o property \o " of targetEvent to date \""
                           \o formatted.value \o "\"\n")

\* generateUpdateEventScript leaving out a date it cannot parse
generateUpdateEventScript_skipsBadDate(p) ==
    LET sanitizedEventId == escapeAppleScriptString(p.eventId)
        head == "\ntell application \"Calendar\"\n"
                \o "    set targetEvent to first event whose uid is \""
                \o sanitizedEventId \o "\"\n"
        title == IF IsGiven(p.title)
                 THEN "    set summary of targetEvent to \""
                      \o escapeAppleScriptString(The(p.title)) \o "\"\n"
                 ELSE ""
        start == IF IsGiven(p.startDate)
                 THEN dateStatement("start date", The(p.startDate),
                                    parseISODate(The(p.startDate)))
                 ELSE Returned("")
        end == IF IsGiven(p.endDate)
               THEN dateStatement("end date", The(p.endDate), parseISODate(The(p.endDate)))
               ELSE Returned("")
        location == IF p.location # {}
                    THEN "    set location of targetEvent to \""
                         \o escapeAppleScriptString(The(p.location)) \o "\"\n"
                    ELSE ""
        notes == IF p.notes # {}
                 THEN "    set description of targetEvent to \""
                      \o escapeAppleScriptString(The(p.notes)) \o "\"\n"
                 ELSE ""
        tail == "\n    return \"Updated: \" & summary of targetEvent\nend tell\n  "
    IN  Returned(trim(head \o title \o start.value \o end.value \o location \o notes \o tail))

\* the statements are appended in order; a throw leaves the function at once
generateUpdateEventScript(p) ==
    LET sanitizedEventId == escapeAppleScriptString(p.eventId)
        head == "\ntell application \"Calendar\"\n"
                \o "    set targetEvent to first event whose uid is \""
                \o sanitizedEventId \o "\"\n"
        title == IF IsGiven(p.title)
                 THEN "    set summary of targetEvent to \""
                      \o escapeAppleScriptString(The(p.title)) \o "\"\n"
                 ELSE ""
        start == IF IsGiven(p.startDate)
                 THEN dateStatement("start date", The(p.startDate),
                                    parseISODate(The(p.startDate)))
                 ELSE Returned("")
        end == IF IsGiven(p.endDate)
               THEN dateStatement("end date", The(p.endDate), parseISODate(The(p.endDate)))
               ELSE Returned("")
        location == IF p.location # {}
                    THEN "    set location of targetEvent to \""
                         \o escapeAppleScriptString(The(p.location)) \o "\"\n"
                    ELSE ""
        notes == IF p.notes # {}
                 THEN "    set description of targetEvent to \""
                      \o escapeAppleScriptString(The(p.notes)) \o "\"\n"
                 ELSE ""
        tail == "\n    return \"Updated: \" & summary of targetEvent\nend tell\n  "
    IN  IF start.threw THEN start
        ELSE IF end.threw THEN end
        ELSE Returned(trim(head \o title \o start.value \o end.value \o location \o notes
                           \o tail))

\* tool arguments: a date that parses, one of the date-time shape that does
\* not, and one that is no date-time string
DateStrings == {"2026-02-18T14:30:00Z", "2026-13-45T10:00:00Z", "tomorrow"}

UpdateEventInputs ==
    {[tool |-> "calendar_update_event",
      args |-> [eventId |-> i, title |-> t, startDate |-> s, endDate |-> e,
                location |-> l, notes |-> n]] :
        i \in {"E1", ""}, t \in Optional({"Standup"}), s \in Optional(DateStrings),
        e \in Optional(DateStrings), l \in Optional({"Room 1", ""}),
        n \in Optional({"say \"hi\""})}

InitCalendar ==
    /\ ctx = NoContext
    /\ pc = "idle"
    /\ now = 0
    /\ ticks = 0
    /\ startTime = 0
    /\ engine = "notInvoked"
    /\ engineCalls = 0
    /\ thrown = NothingThrown
    /\ duration = 0
    /\ timer = "unset"
    /\ result = ""
    /\ error = NoError
    /\ env = NoEnvironment
    /\ calendar = NoCalendar
    /\ retrying = NoRetry
    /\ caller = "none"
    /\ answer = {}
    /\ applied = {}
    /\ input \in UpdateEventInputs
    /\ output = NoOutput
    /\ calls = NoCalls

\* the handler of calendar_update_event up to the validation inside
\* executeScript: the schema rejects the arguments, or the generator throws
\* into the handler's catch block, which answers with the error's message,
\* or the script is generated and handed to executeScript
CalendarUpdateEvent ==
    /\ pc = "idle"
    /\ input.tool = "calendar_update_event"
    /\ LET parsed == UpdateEventInputSchema(input.args)
           generated == generateUpdateEventScript(The(parsed))
       IN  IF parsed = {}
           THEN /\ pc' = "invalid"
                /\ UNCHANGED <<ctx, output, error, thrown, result>>
           ELSE IF generated.threw
           THEN /\ pc' = "threw"
                /\ thrown' = ThrownError(generated.message, "generator")
                /\ result' = "Error: " \o generated.message
                /\ UNCHANGED <<ctx, output, error>>
           ELSE /\ pc' = "generated"
                /\ output' = generated.value
                /\ ctx' = [script |-> generated.value, app |-> "Calendar",
                           operation |-> "update_event", timeout |-> {10000},
                           skipValidation |-> FALSE]
                /\ error' = validateScript(generated.value, "Calendar")
                /\ UNCHANGED <<thrown, result>>
    /\ UNCHANGED <<now, ticks, startTime, engine, engineCalls, duration, timer, env,
                   calendar, retrying, caller, answer, applied, input, calls>>

NextCalendar == CalendarUpdateEvent

SpecCalendar == InitCalendar /\ [][NextCalendar]_vars

(***************************************************************************)
(* apps/calendar: the calendar_find_free_time tool.  The script            *)
(* generateFindFreeTimeScript returns is run by Calendar on the events it  *)
(* holds.  Times are minutes counted from midnight of the target day.      *)
(***************************************************************************)
\* FindFreeTimeInputSchema.parse: {} when it throws, {the parsed input}
\* otherwise; the date argument fixes the day the minutes are counted from
FindFreeTimeInputSchema(a) ==
    IF /\ a.duration >= 15
       /\ a.duration <= 480
       /\ \A h \in a.workingHoursStart \cup a.workingHoursEnd : h >= 0 /\ h <= 23
       /\ Default(a.workingHoursEnd, 17) > Default(a.workingHoursStart, 9)
    THEN {[duration |-> a.duration,
           workingHoursStart |-> Default(a.workingHoursStart, 9),
           workingHoursEnd |-> Default(a.workingHoursEnd, 17)]}
    ELSE {}

\* new Date(year, month, day, hours, 0, 0)
workTime(hours) == hours * 60

\* events of ... whose start date >= workStart and start date < workEnd
dayEvents(events, workStart, workEnd) ==
    {e \in events : e.start >= workStart /\ e.start < workEnd}

\* the orders in which Calendar can return a set of events
Orderings(S) ==
    {order \in [1..Cardinality(S) -> S] :
        \A i, j \in 1..Cardinality(S) : order[i] = order[j] => i = j}

Slot(start, end, minutes) == [start |-> start, end |-> end, minutes |-> minutes]

\* the repeat loop over the events in the order Calendar returned them
RECURSIVE findGaps(_, _, _, _)
findGaps(events, currentTime, requiredDuration, out) ==
    IF events = <<>> THEN [output |-> out, currentTime |-> currentTime]
    ELSE LET eventStart == Head(events).start
             eventEnd == Head(events).end
             gapMinutes == eventStart - currentTime
         IN  findGaps(
                 Tail(events),
                 IF eventEnd > currentTime THEN eventEnd ELSE currentTime,
                 requiredDuration,
                 IF gapMinutes >= requiredDuration
                 THEN Append(out, Slot(currentTime, eventStart, gapMinutes))
                 ELSE out)

\* the script's output for the events returned in this order: the gaps of
\* the loop, then the final gap until the end of the working day
findFreeTime(order, workStart, workEnd, requiredDuration) ==
    LET loop == findGaps(order, workStart, requiredDuration, <<>>)
        finalGapMinutes == workEnd - loop.currentTime
    IN  IF finalGapMinutes >= requiredDuration
        THEN Append(loop.output, Slot(loop.currentTime, workEnd, finalGapMinutes))
        ELSE loop.output

\* the events a calendar can hold: whole hours from 07:00 to 13:00
EventHours == 7..13

PossibleEvents ==
    {[start |-> workTime(h[1]), end |-> workTime(h[2])] :
        h \in {x \in EventHours \X EventHours : x[1] < x[2]}}

Calendars == {c \in SUBSET PossibleEvents : Cardinality(c) <= MaxEvents}

FindFreeTimeInputs ==
    {[tool |-> "calendar_find_free_time",
      args |-> [duration |-> d, workingHoursStart |-> {9}, workingHoursEnd |-> e]] :
        d \in {60, 120}, e \in {{12}, {9}}}

InitFreeTime ==
    /\ ctx = NoContext
    /\ pc = "idle"
    /\ now = 0
    /\ ticks = 0
    /\ startTime = 0
    /\ engine = "notInvoked"
    /\ engineCalls = 0
    /\ thrown = NothingThrown
    /\ duration = 0
    /\ timer = "unset"
    /\ result = ""
    /\ error = NoError
    /\ env = NoEnvironment
    /\ calendar \in Calendars
    /\ retrying = NoRetry
    /\ caller = "none"
    /\ answer = {}
    /\ applied = {}
    /\ input \in FindFreeTimeInputs
    /\ output = NoOutput
    /\ calls = NoCalls

\* the handler of calendar_find_free_time up to the engine's output: the
\* schema rejects the arguments, or Calendar runs the script on the events
\* of the day, which it returns in some order
CalendarFindFreeTime ==
    /\ pc = "idle"
    /\ input.tool = "calendar_find_free_time"
    /\ LET parsed == FindFreeTimeInputSchema(input.args)
           p == The(parsed)
           workStart == workTime(p.workingHoursStart)
           workEnd == workTime(p.workingHoursEnd)
       IN  IF parsed = {}
           THEN /\ pc' = "invalid"
                /\ UNCHANGED output
           ELSE /\ pc' = "returned"
                /\ \E order \in Orderings(dayEvents(calendar, workStart, workEnd)) :
                      output' = findFreeTime(order, workStart, workEnd, p.duration)
    /\ UNCHANGED <<ctx, now, ticks, startTime, engine, engineCalls, thrown, duration, timer,
                   result, error, env, calendar, retrying, caller, answer, applied, input,
                   calls>>

NextFreeTime == CalendarFindFreeTime

SpecFreeTime == InitFreeTime /\ [][NextFreeTime]_vars

(***************************************************************************)
(* apps/reminders and apps/notes: the reminders_list and notes_search      *)
(* tools, from the engine's output to the records of the response.         *)
(***************************************************************************)
\* the Note pushed for the parts of one line
noteFrom(parts) ==
    [id |-> parts[1],
     title |-> parts[2],
     folder |-> parts[3],
     body |-> parts[4],
     createdDate |-> orUndefined(parts[5]),
     modifiedDate |-> orUndefined(parts[6])]

HasSixParts(line) == Len(split(line, "||")) >= 6

parseNoteOutput(out) ==
    LET lines == SelectSeq(split(trim(out), "\\n"), IsTruthy)
        kept == SelectSeq(lines, HasSixParts)
    IN  [i \in 1..Len(kept) |-> noteFrom(split(kept[i], "||"))]

\* array.slice(-n): the last n elements
slice_fromEnd(array, n) ==
    SubSeq(array, IF n < Len(array) THEN Len(array) - n + 1 ELSE 1, Len(array))

\* array.slice(0, n), for n >= 0
slice(array, n) == SubSeq(array, 1, IF n < Len(array) THEN n ELSE Len(array))

\* ListRemindersInputSchema.parse: {} when it throws, {the parsed input} otherwise
ListRemindersInputSchema(a) ==
    IF \A l \in a.limit : l >= 1 /\ l <= 100
    THEN {[limit |-> Default(a.limit, 50)]}
    ELSE {}

SearchNotesInputSchema(a) ==
    IF /\ Len(a.query) >= 1
       /\ \A l \in a.limit : l >= 1 /\ l <= 100
    THEN {[query |-> a.query, limit |-> Default(a.limit, 20)]}
    ELSE {}

\* lines an engine output is made of: records of eight, six and three
\* fields, and an empty line
OutputLines ==
    { "x-apple-reminder://1||Buy milk||false||0||false||||||Reminders",
      "x-apple-reminder://2||Plan||true||9||true||soon||1/2/25 9:00:00 AM||Work",
      "x-coredata://7||Ideas||Notes||first thoughts||1/2/25||2/2/25",
      "x-apple-reminder://3||Call||false",
      "" }

RECURSIVE LineLists(_)
LineLists(n) ==
    IF n = 0 THEN {<<>>}
    ELSE LET shorter == LineLists(n - 1)
         IN  shorter \cup {Append(l, r) : l \in shorter, r \in OutputLines}

\* engine outputs: lines joined by a backslash and the letter n, or by a
\* line feed
EngineTexts == {asText(l, sep) : l \in LineLists(MaxRecords), sep \in {"\\n", "\n"}}

ListInputs ==
    {[tool |-> "reminders_list", args |-> [limit |-> l]] : l \in Optional({0, 1, 2})}
    \cup
    {[tool |-> "notes_search", args |-> [query |-> "Ideas", limit |-> l]] :
        l \in Optional({1, 2})}

InitList ==
    /\ ctx = NoContext
    /\ pc = "idle"
    /\ now = 0
    /\ ticks = 0
    /\ startTime = 0
    /\ engine = "notInvoked"
    /\ engineCalls = 0
    /\ thrown = NothingThrown
    /\ duration = 0
    /\ timer = "unset"
    /\ result \in EngineTexts
    /\ error = NoError
    /\ env = NoEnvironment
    /\ calendar = NoCalendar
    /\ retrying = NoRetry
    /\ caller = "none"
    /\ answer = {}
    /\ applied = {}
    /\ input \in ListInputs
    /\ output = NoOutput
    /\ calls = NoCalls

\* the handler of reminders_list from the result of executeScript on:
\* parseReminderOutput(result).slice(0, input.limit)
RemindersList ==
    /\ pc = "idle"
    /\ input.tool = "reminders_list"
    /\ LET parsed == ListRemindersInputSchema(input.args)
       IN  IF parsed = {}
           THEN pc' = "invalid" /\ UNCHANGED output
           ELSE /\ pc' = "parsed"
                /\ output' = slice(parseReminderOutput(result), The(parsed).limit)
    /\ UNCHANGED <<ctx, now, ticks, startTime, engine, engineCalls, thrown, duration, timer,
                   result, error, env, calendar, retrying, caller, answer, applied, input,
                   calls>>

\* the handler of notes_search: parseNoteOutput(result).slice(0, input.limit)
NotesSearch ==
    /\ pc = "idle"
    /\ input.tool = "notes_search"
    /\ LET parsed == SearchNotesInputSchema(input.args)
       IN  IF parsed = {}
           THEN pc' = "invalid" /\ UNCHANGED output
           ELSE /\ pc' = "parsed"
                /\ output' = slice(parseNoteOutput(result), The(parsed).limit)
    /\ UNCHANGED <<ctx, now, ticks, startTime, engine, engineCalls, thrown, duration, timer,
                   result, error, env, calendar, retrying, caller, answer, applied, input,
                   calls>>

NextList == RemindersList \/ NotesSearch

SpecList == InitList /\ [][NextList]_vars

(***************************************************************************)
(* shared/utils.ts: retry(fn, options).  fn is any asynchronous operation: *)
(* each call of it resolves or rejects.                                    *)
(***************************************************************************)
\* the options with their defaults
maxRetriesOf(o) == Default(o.maxRetries, 3)
initialDelayOf(o) == Default(o.initialDelay, 1000)
maxDelayOf(o) == Default(o.maxDelay, 10000)
backoffMultiplierOf(o) == Default(o.backoffMultiplier, 2)

\* Math.min
min(a, b) == IF a < b THEN a ELSE b

\* error instanceof Error ? error : new Error(String(error))
asError(e) == IF instanceofError(e) THEN e ELSE ThrownError(String(e), e.source)

\* what fn can reject with
FnFailures == {ThrownError("boom", "fn"), ThrownString("busy", "fn")}

RetryOptions ==
    [maxRetries : Optional({0, 2}), initialDelay : Optional({100}),
     maxDelay : Optional({150}), backoffMultiplier : Optional({3})]

InitRetry ==
    /\ ctx = NoContext
    /\ pc = "idle"
    /\ now = 0
    /\ ticks = 0
    /\ startTime = 0
    /\ engine = "notInvoked"
    /\ engineCalls = 0
    /\ thrown = NothingThrown
    /\ duration = 0
    /\ timer = "unset"
    /\ result = ""
    /\ error = NoError
    /\ env = NoEnvironment
    /\ calendar = NoCalendar
    /\ retrying = NoRetry
    /\ caller = "none"
    /\ answer = {}
    /\ applied = {}
    /\ input \in RetryOptions
    /\ output = NoOutput
    /\ calls = NoCalls

\* retry is called: currentDelay = initialDelay, attempt = 0, and fn is
\* called for the first time (maxRetries is not negative)
RetryBegin ==
    /\ pc = "idle"
    /\ pc' = "calling"
    /\ retrying' = [NoRetry EXCEPT !.currentDelay = initialDelayOf(input), !.fnCalls = 1]
    /\ UNCHANGED <<ctx, now, ticks, startTime, engine, engineCalls, thrown, duration, timer,
                   result, error, env, calendar, caller, answer, applied, input, output,
                   calls>>

\* return await fn(): fn resolves and retry returns its value
FnResolves ==
    /\ pc = "calling"
    /\ pc' = "returned"
    /\ \E value \in EngineOutputs : result' = value
    /\ UNCHANGED <<ctx, now, ticks, startTime, engine, engineCalls, thrown, duration, timer,
                   error, env, calendar, retrying, caller, answer, applied, input, output,
                   calls>>

\* the catch block waiting the uncapped currentDelay
FnRejects_uncapped ==
    /\ pc = "calling"
    /\ \E e \in FnFailures :
        /\ IF retrying.attempt < maxRetriesOf(input)
           THEN /\ pc' = "delaying"
                /\ retrying' = [retrying EXCEPT
                                   !.errors = Append(@, e),
                                   !.delays = Append(@, retrying.currentDelay)]
                /\ UNCHANGED thrown
           ELSE /\ pc' = "threw"
                /\ retrying' = [retrying EXCEPT !.errors = Append(@, e),
                                                !.attempt = @ + 1]
                /\ thrown' = asError(e)
    /\ UNCHANGED <<ctx, now, ticks, startTime, engine, engineCalls, duration, timer, result,
                   error, env, calendar, caller, answer, applied, input, output, calls>>

\* fn rejects: the catch block keeps the error; before the last attempt it
\* starts delay(Math.min(currentDelay, maxDelay)), after the last attempt
\* the loop ends and retry throws lastError
FnRejects ==
    /\ pc = "calling"
    /\ \E e \in FnFailures :
        /\ IF retrying.attempt < maxRetriesOf(input)
           THEN /\ pc' = "delaying"
                /\ retrying' = [retrying EXCEPT
                                   !.errors = Append(@, e),
                                   !.delays = Append(@, min(retrying.currentDelay,
                                                            maxDelayOf(input)))]
                /\ UNCHANGED thrown
           ELSE /\ pc' = "threw"
                /\ retrying' = [retrying EXCEPT !.errors = Append(@, e),
                                                !.attempt = @ + 1]
                /\ thrown' = asError(e)
    /\ UNCHANGED <<ctx, now, ticks, startTime, engine, engineCalls, duration, timer, result,
                   error, env, calendar, caller, answer, applied, input, output, calls>>

\* the delay is over: currentDelay *= backoffMultiplier, attempt++, and fn
\* is called again
DelayElapses ==
    /\ pc = "delaying"
    /\ pc' = "calling"
    /\ now' = now + retrying.delays[Len(retrying.delays)]
    /\ retrying' = [retrying EXCEPT
                       !.currentDelay = @ * backoffMultiplierOf(input),
                       !.attempt = @ + 1,
                       !.fnCalls = @ + 1]
    /\ UNCHANGED <<ctx, ticks, startTime, engine, engineCalls, thrown, duration, timer,
                   result, error, env, calendar, caller, answer, applied, input, output,
                   calls>>

NextRetry == RetryBegin \/ FnResolves \/ FnRejects \/ DelayElapses

SpecRetry == InitRetry /\ [][NextRetry]_vars

(***************************************************************************)
(* Properties.                                                             *)
(***************************************************************************)
\* the six checks of validateScript, one by one
FailsEmpty(script) == Len(trim(script)) = 0
FailsLength(script) == Len(script) > maxLength
FailsWhitelist(app) == \A i \in 1..Len(ALLOWED_APPS) : ALLOWED_APPS[i] # app
FailsTarget(script, app) ==
    LET clauses == matchAll(script)
    IN  \A k \in 1..Len(clauses) : toLowerCase(clauses[k]) # toLowerCase(app)
Occurs(script, k) == includes(toLowerCase(script), toLowerCase(FORBIDDEN_PATTERNS[k]))
FailsPattern(script) ==
    LET lowered == toLowerCase(script)
    IN  \E k \in 1..Len(FORBIDDEN_PATTERNS) :
            includes(lowered, toLowerCase(FORBIDDEN_PATTERNS[k]))
\* the trimmed script begins: tell, whitespace, application, whitespace, a quote
OpensWithTell(script) ==
    LET t == trim(script)
    IN  /\ Len(t) >= 18
        /\ toLowerCase(SubSeq(t, 1, 4)) = "tell"
        /\ \E b \in 6..(Len(t) - 12) :
            /\ \A k \in 5..(b - 1) : IsSpace(Char(t, k))
            /\ toLowerCase(SubSeq(t, b, b + 10)) = "application"
            /\ \E d \in (b + 12)..Len(t) :
                /\ \A k \in (b + 11)..(d - 1) : IsSpace(Char(t, k))
                /\ IsQuote(Char(t, d))
FailsStart(script) == ~OpensWithTell(script)

IsForbiddenMessage(message) ==
    \E k \in 1..Len(FORBIDDEN_PATTERNS) : message = ForbiddenMessage(FORBIDDEN_PATTERNS[k])

\* C1: when skipValidation is unset and validateScript rejects the script, the
\* engine is never invoked for the call and executeScript throws the validator's
\* SecurityError itself: code SECURITY_VIOLATION, same message and details.
C1_RejectionAbortsUnchanged ==
    (pc # "idle" /\ ~ctx.skipValidation /\ validateScript(ctx.script, ctx.app) # NoError)
        => /\ pc = "threw"
           /\ engine = "notInvoked"
           /\ engineCalls = 0
           /\ error = validateScript(ctx.script, ctx.app)
           /\ error.name = "SecurityError"
           /\ error.code = "SECURITY_VIOLATION"

\* a rejected call, some time after it was rejected
C1_Witness ==
    /\ pc = "threw"
    /\ ~ctx.skipValidation
    /\ error.code = "SECURITY_VIOLATION"
    /\ error.message = ForbiddenMessage("do shell script")
    /\ engineCalls = 0
    /\ now > startTime

\* C2: validateScript applies its checks in the order empty, length, whitelist,
\* self-consistency, forbidden pattern, structural start; the rejection is the
\* first failing check's; a script is accepted iff all six checks pass.
C2_ChecksInFixedOrder ==
    pc = "validated" =>
        LET m == error.message
            empty     == FailsEmpty(ctx.script)
            length    == ~empty /\ FailsLength(ctx.script)
            whitelist == ~empty /\ ~length /\ FailsWhitelist(ctx.app)
            target    == ~empty /\ ~length /\ ~whitelist
                            /\ FailsTarget(ctx.script, ctx.app)
            pattern   == ~empty /\ ~length /\ ~whitelist /\ ~target
                            /\ FailsPattern(ctx.script)
            start     == ~empty /\ ~length /\ ~whitelist /\ ~target /\ ~pattern
                            /\ FailsStart(ctx.script)
        IN  /\ (m = EmptyMessage) <=> empty
            /\ (m = LengthMessage) <=> length
            /\ (m = WhitelistMessage(ctx.app)) <=> whitelist
            /\ (m = MismatchMessage(ctx.app)) <=> target
            /\ IsForbiddenMessage(m) <=> pattern
            /\ (m = StartMessage) <=> start
            /\ (error = NoError) <=>
                    ~(empty \/ length \/ whitelist \/ target \/ pattern \/ start)
            /\ error # NoError => error.code = "SECURITY_VIOLATION"

\* a declaredApp outside ALLOWED_APPS, a script that targets another app and
\* contains a forbidden pattern: the whitelist reason comes back
C2_Witness ==
    /\ pc = "validated"
    /\ ctx.app = "Terminal"
    /\ ~FailsEmpty(ctx.script)
    /\ ~FailsLength(ctx.script)
    /\ FailsTarget(ctx.script, ctx.app)
    /\ FailsPattern(ctx.script)
    /\ error.message = WhitelistMessage("Terminal")

\* the opening-target clause at the very start of the trimmed script, if any
LeadingClause(script) == tellPatternAt(trim(script), 1)

\* C3: every accepted script starts by opening exactly the declared,
\* whitelisted application: the clause at the start of the trimmed script names
\* declaredApp (case-insensitively) and declaredApp is in ALLOWED_APPS.
C3_AcceptedOpensDeclaredApp ==
    (pc = "validated" /\ error = NoError)
        => /\ ~FailsWhitelist(ctx.app)
           /\ LeadingClause(ctx.script).found
           /\ toLowerCase(LeadingClause(ctx.script).app) = toLowerCase(ctx.app)

\* C4 as stated: a script containing a forbidden pattern is rejected with the
\* forbidden-pattern reason, reporting a pattern that occurs, for every declaredApp.
C4_AlwaysPatternReason ==
    (pc = "validated" /\ FailsPattern(ctx.script))
        => \E k \in 1..Len(FORBIDDEN_PATTERNS) :
                /\ Occurs(ctx.script, k)
                /\ error.message = ForbiddenMessage(FORBIDDEN_PATTERNS[k])

\* C4, amended: a script containing a forbidden pattern (case-insensitively,
\* anywhere) is rejected for every declaredApp; when the script has at most
\* 50000 characters and declaredApp is whitelisted and named by one of the
\* script's opening-target clauses, the rejection is the forbidden-pattern
\* reason reporting a pattern of the table that occurs in the script
\* ('do shell script' when the script contains it).
C4_PatternRejected ==
    (pc = "validated" /\ FailsPattern(ctx.script))
        => /\ error # NoError
           /\ error.code = "SECURITY_VIOLATION"
           /\ (~FailsLength(ctx.script) /\ ~FailsWhitelist(ctx.app)
                    /\ ~FailsTarget(ctx.script, ctx.app))
                => /\ \E k \in 1..Len(FORBIDDEN_PATTERNS) :
                        /\ Occurs(ctx.script, k)
                        /\ error.message = ForbiddenMessage(FORBIDDEN_PATTERNS[k])
                        /\ error.details.pattern = FORBIDDEN_PATTERNS[k]
                   /\ Occurs(ctx.script, 1)
                        => error.message = ForbiddenMessage("do shell script")

\* shell execution inside a correctly targeted Reminders block (Scenario B),
\* and an upper-case pattern
C4_Witness ==
    /\ pc = "validated"
    /\ ctx.app = "Reminders"
    /\ ~FailsStart(ctx.script)
    /\ \/ /\ includes(ctx.script, "do shell script \"rm -rf /\"")
          /\ error.details.pattern = "do shell script"
       \/ /\ includes(ctx.script, "SUDO")
          /\ error.details.pattern = "sudo"

\* C5 as stated: a script whose trimmed text does not begin with a
\* tell application "..." clause is rejected with the structural-start reason.
C5_AlwaysStartReason ==
    (pc = "validated" /\ ~LeadingClause(ctx.script).found)
        => error.message = StartMessage

\* C5, amended: a script whose trimmed text does not begin with tell,
\* whitespace, application, whitespace and a quote character is rejected for
\* every declaredApp; the reason is the structural-start reason when the five
\* earlier checks pass (non-empty, at most 50000 characters, declaredApp
\* whitelisted and named by a clause of the script, no forbidden pattern), and
\* the first failing earlier check's reason otherwise.
C5_NoLeadingTellRejected ==
    (pc = "validated" /\ FailsStart(ctx.script))
        => /\ error # NoError
           /\ error.code = "SECURITY_VIOLATION"
           /\ (error.message = StartMessage) <=>
                (~FailsEmpty(ctx.script) /\ ~FailsLength(ctx.script)
                    /\ ~FailsWhitelist(ctx.app) /\ ~FailsTarget(ctx.script, ctx.app)
                    /\ ~FailsPattern(ctx.script))

\* a statement ahead of a clause that names the declared app
C5_Witness ==
    /\ pc = "validated"
    /\ FailsStart(ctx.script)
    /\ includes(ctx.script, "set x to 5")
    /\ ~FailsTarget(ctx.script, ctx.app)
    /\ error.message = StartMessage

\* C6 as stated: a script whose opening-target clauses all name another app
\* than declaredApp is rejected with the app-mismatch reason.
C6_AlwaysMismatchReason ==
    (pc = "validated" /\ FailsTarget(ctx.script, ctx.app))
        => error.message = MismatchMessage(ctx.app)

\* C6, amended: for a non-blank script of at most 50000 characters and a
\* whitelisted declaredApp, if the script's opening-target clauses all name an
\* app different (case-insensitively) from declaredApp, validateScript rejects
\* with the app-mismatch reason.
C6_MismatchRejected ==
    (pc = "validated" /\ ~FailsEmpty(ctx.script) /\ ~FailsLength(ctx.script)
        /\ ~FailsWhitelist(ctx.app) /\ FailsTarget(ctx.script, ctx.app))
        => /\ error = SecurityError(MismatchMessage(ctx.app), [app |-> ctx.app])
           /\ error.code = "SECURITY_VIOLATION"

\* declaredApp Reminders, the only clause names Calendar (Scenario C)
C6_Witness ==
    /\ pc = "validated"
    /\ ctx.app = "Reminders"
    /\ matchAll(ctx.script) = <<"Calendar">>
    /\ error.message = MismatchMessage("Reminders")

\* the call's configured timeout: ctx.timeout, or the default when absent
ConfiguredTimeout ==
    IF ctx.timeout = {} THEN DEFAULT_TIMEOUT ELSE CHOOSE ms \in ctx.timeout : TRUE

\* the text of the value the engine rejected with
EngineErrorText ==
    IF thrown.type = "number" THEN ToString(thrown.num) ELSE thrown.message

TimeoutLike(m) == includes(m, "timed out") \/ includes(m, "Timeout")

\* C7: a call that passed validation and whose engine invocation has not
\* settled when its timeout elapses is unblocked at the deadline with
\* ExecutionTimeoutError carrying the configured timeout; no call is still
\* pending after its deadline.
C7_TimeoutUnblocksCaller ==
    /\ pc = "awaiting" => (timer = "armed" /\ now <= startTime + ConfiguredTimeout)
    /\ (timer = "fired" /\ engine = "pending") => (pc = "threw" /\ thrown.source = "timer")
    /\ (pc = "threw" /\ thrown.source = "timer")
        => /\ timer = "fired"
           /\ duration >= ConfiguredTimeout
           /\ error.name = "ExecutionTimeoutError"
           /\ error.code = "EXECUTION_TIMEOUT"
           /\ error.details.timeout = ConfiguredTimeout
           /\ error.message =
                "Script execution timed out after " \o ToString(ConfiguredTimeout) \o "ms"

\* the engine never returns within timeout 5: ExecutionTimeout carrying 5 (Scenario D)
C7_Witness ==
    /\ pc = "threw"
    /\ ctx.timeout = {5}
    /\ engine = "pending"
    /\ timer = "fired"
    /\ error.code = "EXECUTION_TIMEOUT"
    /\ error.details.timeout = 5

\* C8: ExecutionTimeout is raised only when the deadline was exceeded: an
\* engine failure before the timeout elapses yields PermissionError,
\* AppNotFoundError or ScriptExecutionError, whatever the error text.
C8_TimeoutOnlyAfterDeadline ==
    (pc = "threw" /\ thrown.source = "engine" /\ duration < ConfiguredTimeout)
        => /\ error.code # "EXECUTION_TIMEOUT"
           /\ error.code \in {"PERMISSION_DENIED", "APP_NOT_FOUND", "SCRIPT_EXECUTION_ERROR"}

\* C9: an engine failure whose text m is not timeout-like is PermissionError
\* for the call's app if m has a permission keyword, else AppNotFoundError if
\* m has a not-found keyword, else ScriptExecutionError carrying m and the
\* elapsed duration; both keyword groups give PermissionError.
C9_EngineFailureClassified ==
    (pc = "threw" /\ thrown.source = "engine" /\ ~TimeoutLike(EngineErrorText))
        => LET m == EngineErrorText
           IN  IF isPermissionError(m)
               THEN /\ error.name = "PermissionError"
                    /\ error.code = "PERMISSION_DENIED"
                    /\ error.details.app = ctx.app
               ELSE IF isAppNotFoundError(m)
               THEN /\ error.name = "AppNotFoundError"
                    /\ error.code = "APP_NOT_FOUND"
                    /\ error.details.app = ctx.app
               ELSE /\ error.name = "ScriptExecutionError"
                    /\ error.code = "SCRIPT_EXECUTION_ERROR"
                    /\ error.message = m
                    /\ error.details.duration = duration
                    /\ startTime + duration <= now

\* the engine fails, some time into the call, with a text of both keyword groups
C9_Witness ==
    /\ pc = "threw"
    /\ thrown.source = "engine"
    /\ isPermissionError(thrown.message)
    /\ isAppNotFoundError(thrown.message)
    /\ error.code = "PERMISSION_DENIED"
    /\ duration > 0
    /\ startTime > 0

ErrorCodes ==
    {"SECURITY_VIOLATION", "PERMISSION_DENIED", "APP_NOT_FOUND", "EXECUTION_TIMEOUT",
     "SCRIPT_EXECUTION_ERROR"}

ErrorNames ==
    {"SecurityError", "PermissionError", "AppNotFoundError", "ExecutionTimeoutError",
     "ScriptExecutionError"}

\* C10: every failure of executeScript (validation rejection, timer expiry, an
\* engine error of any text, a thrown non-Error value) is a MacOSMCPError whose
\* code is one of the five codes.
C10_EveryFailureClassified ==
    /\ pc = "threw" => (error.name \in ErrorNames /\ error.code \in ErrorCodes)
    /\ pc # "threw" => error = NoError

\* the engine rejected with a value that is not an Error
C10_Witness ==
    /\ pc = "threw"
    /\ thrown.source = "engine"
    /\ thrown.type = "number"
    /\ error.code = "SCRIPT_EXECUTION_ERROR"
    /\ error.message = "42"

\* C11: when the timer of timeout() fires, the step only settles the race: it
\* leaves the engine invocation as it was (nothing terminates it). Once the
\* caller has its error, a still-pending invocation changes only by its own
\* completion, and a completion applies the script's effect.
C11_TimeoutAbandonsEngine ==
    [][ /\ (timer = "armed" /\ timer' = "fired") => (engine' = engine /\ applied' = applied)
        /\ (pc = "threw" /\ engine = "pending" /\ engine' # engine)
              => engine' \in {"resolved", "rejected"}
        /\ (engine = "pending" /\ engine' = "resolved")
              => applied' = applied \cup {ctx.script} ]_vars

\* the caller got ExecutionTimeoutError from the timer, and the abandoned
\* script completed afterwards and applied its effect
C11_Witness ==
    /\ pc = "threw"
    /\ thrown.source = "timer"
    /\ error.code = "EXECUTION_TIMEOUT"
    /\ engine = "resolved"
    /\ ctx.script \in applied

\* C12: one executeScript call invokes the engine at most once; once the call
\* has returned or thrown, the engine is not invoked again and the outcome
\* handed to the caller stays as it is.
C12_EngineInvokedAtMostOnce ==
    [][ /\ engineCalls' <= 1
        /\ pc \in {"returned", "threw"}
              => /\ engineCalls' = engineCalls
                 /\ pc' = pc
                 /\ error' = error
                 /\ result' = result ]_vars

\* the engine failed, the caller has the error, and time has passed since
C12_Witness ==
    /\ pc = "threw"
    /\ thrown.source = "engine"
    /\ engineCalls = 1
    /\ now > startTime + duration

\* C16: isAppRunning calls executeScript on System Events with validation
\* skipped and a 5000 ms timeout, so the engine is always invoked; it returns
\* true exactly when executeScript returned a result whose trim() is 'true',
\* and false whenever executeScript threw (it never throws itself).
C16_IsAppRunningAnswers ==
    caller = "isAppRunning" =>
        /\ ctx.skipValidation
        /\ ctx.timeout = {5000}
        /\ ctx.app = "System Events"
        /\ engineCalls = 1
        /\ pc \in {"awaiting", "returned", "threw"}
        /\ pc = "awaiting" => answer = {}
        /\ pc = "returned" => answer = {trim(result) = "true"}
        /\ pc = "threw" => answer = {FALSE}

\* the probe ran into its 5000 ms deadline and isAppRunning returned false
C16_Witness ==
    /\ caller = "isAppRunning"
    /\ pc = "threw"
    /\ thrown.source = "timer"
    /\ duration >= 5000
    /\ answer = {FALSE}

\* C17: testAppAccess calls executeScript with its probe script, validation
\* on and a 5000 ms timeout; it returns true exactly when executeScript
\* returned and false whenever it threw; for an application outside
\* ALLOWED_APPS it returns false and the engine is never invoked.
C17_TestAppAccessAnswers ==
    caller = "testAppAccess" =>
        /\ ~ctx.skipValidation
        /\ ctx.timeout = {5000}
        /\ ctx.script = testScript(ctx.app)
        /\ pc \in {"awaiting", "returned", "threw"}
        /\ pc = "awaiting" => answer = {}
        /\ pc = "returned" => answer = {TRUE}
        /\ pc = "threw" => answer = {FALSE}
        /\ ~isAllowedApp(ctx.app)
              => /\ pc = "threw"
                 /\ error.code = "SECURITY_VIOLATION"
                 /\ engine = "notInvoked"
                 /\ engineCalls = 0

\* testAppAccess of an application outside the whitelist returned false
C17_Witness ==
    /\ caller = "testAppAccess"
    /\ ~isAllowedApp(ctx.app)
    /\ answer = {FALSE}
    /\ engineCalls = 0
    /\ now > startTime

\* C20: a call that gives no timeout is timed out by the timer only after the
\* configured default, the SCRIPT_TIMEOUT of the environment in milliseconds
\* (30000 when unset).
C20_DefaultTimeoutFromEnvironment ==
    (pc = "threw" /\ thrown.source = "timer" /\ ctx.timeout = {})
        => duration >= decimal(scriptTimeoutSetting(env))

\* the number of consecutive backslashes that end right before position i
BackslashesBefore(s, i) ==
    CHOOSE n \in 0..(i - 1) :
        /\ \A k \in (i - n)..(i - 1) : Char(s, k) = "\\"
        /\ n = i - 1 \/ Char(s, i - n - 1) # "\\"

\* reading an escaped text back: a backslash stands for the character after it
RECURSIVE Unescape(_)
Unescape(s) ==
    IF s = "" THEN ""
    ELSE IF Char(s, 1) = "\\" /\ Len(s) >= 2
         THEN Char(s, 2) \o Unescape(SubSeq(s, 3, Len(s)))
         ELSE Char(s, 1) \o Unescape(SubSeq(s, 2, Len(s)))

\* where the string literal whose text starts at position i of s ends: the
\* position of its closing quote, 0 if there is none
RECURSIVE LiteralEnd(_, _)
LiteralEnd(s, i) ==
    IF i > Len(s) THEN 0
    ELSE IF Char(s, i) = "\\" THEN LiteralEnd(s, i + 2)
    ELSE IF Char(s, i) = "\"" THEN i
    ELSE LiteralEnd(s, i + 1)

\* C13: in the output of escapeAppleScriptString every double quote follows an
\* odd number of consecutive backslashes, every run of backslashes that does
\* not end at a quote has even length, unescaping the output gives the input
\* back, and the output put between double quotes is one string literal that
\* ends at the closing quote of the template.
C13_EscapedTextStaysInsideLiteral ==
    pc = "escaped" =>
        /\ \A i \in 1..Len(output) :
              Char(output, i) = "\"" => BackslashesBefore(output, i) % 2 = 1
        /\ \A i \in 1..Len(output) :
              (/\ Char(output, i) = "\\"
               /\ i = Len(output) \/ Char(output, i + 1) \notin {"\\", "\""})
                  => BackslashesBefore(output, i + 1) % 2 = 0
        /\ Unescape(output) = input
        /\ LiteralEnd("\"" \o output \o "\"", 2) = Len(output) + 2

\* a backslash right before a quote: the quote ends up behind three backslashes
C13_Witness ==
    /\ pc = "escaped"
    /\ input = "a\\\""
    /\ output = "a\\\\\\\""

\* C15: for the text of k reminders, each a line of eight fields joined by
\* "||" and the lines joined by newlines, parseReminderOutput returns k
\* reminders, the i-th built from the fields of the i-th line.
C15_OneReminderPerLine ==
    pc = "parsed" => output = [i \in 1..Len(input) |-> reminderFrom(input[i])]

\* the free-text fields of the tool input that may hold several lines
MultiLineTexts ==
    IF input.tool = "reminders_add" THEN {n \in input.args.notes : n # ""}
    ELSE IF input.tool = "notes_create" THEN {input.args.body}
    ELSE {input.args.content}

\* the tool input with every newline of those fields replaced by a space
OnOneLine(t) == replaceAll(t, "\n", " ")

InputOnOneLine ==
    IF input.tool = "reminders_add"
    THEN [input.args EXCEPT !.notes = {OnOneLine(n) : n \in input.args.notes}]
    ELSE IF input.tool = "notes_create"
    THEN [input.args EXCEPT !.body = OnOneLine(input.args.body)]
    ELSE [input.args EXCEPT !.content = OnOneLine(input.args.content)]

\* the script the tool's generator gives for arguments the schema accepts
ScriptFor(tool, args) ==
    IF tool = "reminders_add"
    THEN generateAddReminderScript(The(AddReminderInputSchema(args)))
    ELSE IF tool = "notes_create"
    THEN generateCreateNoteScript(The(CreateNoteInputSchema(args)))
    ELSE generateAppendNoteScript(The(AppendNoteInputSchema(args)))

Newlines(s) == Len(replaceAll(s, "\n", "\n\n")) - Len(s)

\* C14: a generated script holds each multi-line free-text field escaped in the
\* order backslash, quote, newline (a newline as backslash and 'n'), and has
\* no more raw newlines than the script for the same input written on one
\* line: no newline of the user's text reaches the script.
C14_NewlinesOfFreeTextEscaped ==
    pc = "generated" =>
        /\ \A t \in MultiLineTexts :
              includes(output, replaceAll(escapeAppleScriptString(t), "\n", "\\n"))
        /\ Newlines(output) = Newlines(ScriptFor(input.tool, InputOnOneLine))

\* C19: the script generated for arguments the tool's schema accepts has at
\* most maxLength characters and is not rejected by the length check.
C19_GeneratedScriptWithinCeiling ==
    pc = "generated" =>
        /\ Len(output) <= maxLength
        /\ error.message # LengthMessage

\* what validateScript says of each request, taken alone
OwnVerdict ==
    [c \in ConcurrentContexts |->
        IF ~c.skipValidation THEN validateScript(c.script, c.app) ELSE NoError]

\* the outcome of call k follows from its own request, its own engine
\* response and its own clock readings
OwnOutcome(k) ==
    LET verdict == IF k = IdleCall THEN NoError ELSE OwnVerdict[k.ctx]
        expiry == ThrownError(timeoutMessage(k.ctx), "timer")
    IN  \/ k = IdleCall
        \/ /\ verdict # NoError
           /\ k.pc = "threw"
           /\ k.error = verdict
           /\ k.engine = "notInvoked"
           /\ k.timer = "unset"
        \/ /\ verdict = NoError
           /\ k.engine # "notInvoked"
           /\ k.pc = "awaiting" => (~k.response.settled /\ k.timer = "armed")
           /\ k.pc = "returned" => (k.response.settled /\ k.result = k.response.out)
           /\ k.pc = "threw"
                => \/ /\ k.response.settled
                      /\ k.thrown = k.response.failure
                      /\ k.error = catchBlock(k.thrown, k.ctx, k.duration)
                   \/ /\ k.timer = "fired"
                      /\ k.thrown = expiry
                      /\ k.duration >= scriptTimeout(k.ctx)
                      /\ k.error = catchBlock(expiry, k.ctx, k.duration)

\* C18: with several executeScript calls in flight, every call's verdict and
\* outcome follow from its own request and its own engine response, a step of
\* one call leaves every other call as it was, and no call waits for another:
\* an idle call can start and a pending engine invocation can settle whatever
\* the other calls are doing.
C18_CallsAreIndependent ==
    [][ /\ \A i \in CallIds : OwnOutcome(calls'[i])
        /\ \A i, j \in CallIds :
              (i # j /\ calls'[i] # calls[i]) => calls'[j] = calls[j] ]_vars

\* one call timed out, and another call that was in flight at the same time
\* returned its engine's output
C18_Witness ==
    \E i, j \in CallIds :
        /\ i # j
        /\ calls[i].pc = "threw"
        /\ calls[i].thrown.source = "timer"
        /\ calls[j].pc = "returned"
        /\ calls[j].result = "success"
        /\ calls[j].startTime < calls[i].startTime + calls[i].duration
        /\ calls[i].startTime < calls[j].startTime + calls[j].duration

\* validateScript's verdict on each call that gives no timeout
DefaultVerdict == [c \in DefaultContexts |-> validateScript(c.script, c.app)]

\* C21: the enable-validation switch of the environment governs whether
\* executeScript validates: with the switch false no call is stopped by the
\* validator, every script is handed to the engine; with the switch true a
\* call without skipValidation reaches the engine only if validateScript
\* accepts its script.
C21_ValidationSwitchGoverns ==
    (caller = "executeScript" /\ pc # "idle") =>
        IF securityValidationSetting(env)
        THEN (~ctx.skipValidation /\ engineCalls > 0) => DefaultVerdict[ctx] = NoError
        ELSE engineCalls > 0 /\ thrown.source # "validator"

\* the numeric code the tool's description gives each priority
PriorityCode ==
    [q \in Priorities |->
        CASE q = "none" -> 0 [] q = "low" -> 1 [] q = "medium" -> 5 [] q = "high" -> 9]

\* C22: the script generated for reminders_add sets the priority to the code
\* of the requested priority (0, 1, 5, 9 for none, low, medium, high), reading
\* that code back with appleScriptToPriority gives the priority again, and
\* appleScriptToPriority maps every integer by the thresholds 9, 5 and 1.
C22_PriorityCodeRoundTrip ==
    /\ (pc = "generated" /\ input.tool = "reminders_add") =>
          LET p == Default(input.args.priority, "none")
          IN  /\ includes(output, "    set priority of newReminder to "
                                    \o ToString(PriorityCode[p]) \o "\n")
              /\ priorityToAppleScript(p) = PriorityCode[p]
              /\ appleScriptToPriority({priorityToAppleScript(p)}) = p
    /\ \A v \in (0 - 3)..12 :
          appleScriptToPriority({v}) =
              (IF v >= 9 THEN "high" ELSE IF v \in 5..8 THEN "medium"
               ELSE IF v \in 1..4 THEN "low" ELSE "none")

\* C22 witness: a reminder of priority high was generated with code 9
C22_Witness ==
    /\ pc = "generated"
    /\ input.tool = "reminders_add"
    /\ input.args.priority = {"high"}
    /\ includes(output, "set priority of newReminder to 9\n")

\* the dates among the arguments that new Date cannot read
UnparseableDates ==
    {s \in input.args.startDate \cup input.args.endDate : s # "" /\ NewDate(s) = {}}

\* C23: for arguments its schema accepts, generateUpdateEventScript either
\* returns one complete script, from its tell application clause to end
\* tell, or throws; it throws exactly when a date among the arguments cannot
\* be parsed, the error is parseISODate's 'Invalid date string', no script
\* (not even the statements already appended) is returned, and the error
\* reaches the caller's catch block.
C23_CompleteScriptOrThrow ==
    /\ pc = "generated" =>
          /\ UnparseableDates = {}
          /\ SubSeq(output, 1, 28) = "tell application \"Calendar\"\n"
          /\ SubSeq(output, Len(output) - 8, Len(output)) = "\nend tell"
          /\ thrown = NothingThrown
    /\ (pc = "threw" /\ input.tool = "calendar_update_event") =>
          /\ \E s \in UnparseableDates : thrown.message = "Invalid date string: " \o s
          /\ output = NoOutput
          /\ result = "Error: " \o thrown.message
    /\ (pc = "invalid" /\ input.tool = "calendar_update_event") =>
          UpdateEventInputSchema(input.args) = {}

\* C23 witness: the title statement was already appended when the start date
\* failed to parse; the generator threw and returned no script
C23_Witness ==
    /\ pc = "threw"
    /\ input.tool = "calendar_update_event"
    /\ input.args.title = {"Standup"}
    /\ input.args.startDate = {"2026-13-45T10:00:00Z"}
    /\ thrown.message = "Invalid date string: 2026-13-45T10:00:00Z"
    /\ output = NoOutput

\* C24: the script generated for arguments the tool's schema accepts is
\* accepted by validateScript with the application its handler declares;
\* user text in a title, notes or body never makes the validator reject it
\* (scripts over the length ceiling set aside).
C24_GeneratedScriptAccepted ==
    (pc = "generated" /\ Len(output) <= maxLength) => error = NoError

\* the forbidden patterns, the reserved System Events target aside, that
\* occur in each script isAppRunning builds
ProbePatterns ==
    [s \in {runningScript(a) : a \in RunningApps} |->
        {k \in 1..Len(FORBIDDEN_PATTERNS) :
            /\ FORBIDDEN_PATTERNS[k] # "System Events"
            /\ includes(toLowerCase(s), toLowerCase(FORBIDDEN_PATTERNS[k]))}]

\* C25: the script isAppRunning hands to the engine holds no forbidden
\* pattern other than its reserved System Events target, whatever the
\* appName: text such as `do shell script` given as appName never reaches
\* the engine.
C25_ProbeCarriesNoForbiddenPattern ==
    (caller = "isAppRunning" /\ engineCalls > 0) => ProbePatterns[ctx.script] = {}

\* what the caller of executeScript got
Outcome == <<pc, result, error, thrown, duration, answer>>

\* C26: each call delivers exactly one outcome, decided by whichever of the
\* engine's settlement and the timer's expiry comes first.  The step that
\* ends the wait is the engine settling (its result is returned, its error
\* classified) or the timer firing (ExecutionTimeoutError); once the outcome
\* is delivered no later step changes it: the expiry of the never-cancelled
\* timer after a settlement and the settlement after an expiry are without
\* effect on the caller.
C26_FirstSettlementDecides ==
    [][ /\ pc \in {"returned", "threw"} => Outcome' = Outcome
        /\ (pc = "awaiting" /\ pc' # "awaiting") =>
              \/ /\ engine = "pending" /\ engine' = "resolved" /\ timer' = timer
                 /\ pc' = "returned"
                 /\ result' \in EngineOutputs
              \/ /\ engine = "pending" /\ engine' = "rejected" /\ timer' = timer
                 /\ pc' = "threw"
                 /\ thrown' \in EngineFailures
              \/ /\ timer = "armed" /\ timer' = "fired" /\ engine' = engine
                 /\ pc' = "threw"
                 /\ thrown'.source = "timer"
                 /\ error'.code = "EXECUTION_TIMEOUT"
        /\ (pc = "awaiting" /\ (engine' # engine \/ timer' # timer)) => pc' # "awaiting"
      ]_vars

\* C26 witness: the engine settled first and the caller has its result; the
\* timer, never cancelled, expired afterwards
C26_Witness ==
    /\ pc = "returned"
    /\ result = "success"
    /\ engine = "resolved"
    /\ timer = "fired"

\* C27: whatever events the calendar holds and in whatever order Calendar
\* returns them, every slot the find-free-time script emits lies within the
\* working hours, lasts at least the required duration, and overlaps no
\* event of the calendar.
C27_SlotsAreFree ==
    (pc = "returned" /\ input.tool = "calendar_find_free_time") =>
        LET p == The(FindFreeTimeInputSchema(input.args))
        IN  \A k \in 1..Len(output) :
                /\ output[k].start >= workTime(p.workingHoursStart)
                /\ output[k].end <= workTime(p.workingHoursEnd)
                /\ output[k].end - output[k].start >= p.duration
                /\ output[k].minutes >= p.duration
                /\ \A e \in calendar : e.end <= output[k].start \/ e.start >= output[k].end

\* the declared application is a whitelisted name written in another letter case
DiffersInCaseOnly(app) ==
    /\ \A i \in 1..Len(ALLOWED_APPS) : ALLOWED_APPS[i] # app
    /\ \E i \in 1..Len(ALLOWED_APPS) : toLowerCase(ALLOWED_APPS[i]) = toLowerCase(app)

\* C28: the whitelist check compares the declared application with
\* ALLOWED_APPS exactly, the self-consistency check compares ignoring letter
\* case: a script that is not blank and not over the length ceiling, declared
\* for a whitelisted name in another letter case, is rejected with the
\* whitelist reason; a script with a tell clause that names a whitelisted
\* declared application in another letter case is not rejected for a mismatch.
C28_WhitelistExactTargetAnyCase ==
    (pc = "validated" /\ ~FailsEmpty(ctx.script) /\ ~FailsLength(ctx.script)) =>
        /\ DiffersInCaseOnly(ctx.app) => error.message = WhitelistMessage(ctx.app)
        /\ ~FailsWhitelist(ctx.app) =>
              LET clauses == matchAll(ctx.script)
              IN  (\E k \in 1..Len(clauses) :
                      /\ clauses[k] # ctx.app
                      /\ toLowerCase(clauses[k]) = toLowerCase(ctx.app))
                  => error.message # MismatchMessage(ctx.app)

\* C28 witness: a script telling 'reminders', declared for Reminders, was
\* accepted
C28_Witness ==
    /\ pc = "validated"
    /\ ctx.app = "Reminders"
    /\ ctx.script = "TELL  application 'reminders'"
    /\ error = NoError

\* the records of an engine output as the parsers separate them (by a
\* backslash and the letter n, empty ones left out), each split into fields
RecordsOf(text) ==
    LET lines == split(trim(text), "\\n")
        kept == SelectSeq(lines, LAMBDA l : l # "")
    IN  [i \in 1..Len(kept) |-> split(kept[i], "||")]

\* the fields a record of the tool's format has, and the limit in force
RequiredFields == IF input.tool = "notes_search" THEN 6 ELSE 8

LimitInForce ==
    IF input.args.limit # {} THEN The(input.args.limit)
    ELSE IF input.tool = "notes_search" THEN 20 ELSE 50

RECURSIVE Power(_, _)
Power(b, n) == IF n = 0 THEN 1 ELSE b * Power(b, n - 1)

\* the wait the backoff schedule gives before attempt k + 1
ScheduledWait(k) ==
    LET grown == initialDelayOf(input) * Power(backoffMultiplierOf(input), k - 1)
    IN  IF grown < maxDelayOf(input) THEN grown ELSE maxDelayOf(input)

\* C30: retry calls fn at most maxRetries + 1 times and stops at the first
\* success; the k-th wait is min(initialDelay * backoffMultiplier^(k-1),
\* maxDelay), never more than maxDelay; every call but the last is a failure
\* followed by a wait, and after the last failed attempt retry throws that
\* attempt's error without waiting again.
C30_RetryBackoffSchedule ==
    /\ retrying.fnCalls <= maxRetriesOf(input) + 1
    /\ \A k \in 1..Len(retrying.delays) :
          /\ retrying.delays[k] = ScheduledWait(k)
          /\ retrying.delays[k] <= maxDelayOf(input)
    /\ pc = "calling" =>
          /\ Len(retrying.errors) = retrying.fnCalls - 1
          /\ Len(retrying.delays) = retrying.fnCalls - 1
    /\ pc = "returned" =>
          /\ Len(retrying.errors) = retrying.fnCalls - 1
          /\ Len(retrying.delays) = retrying.fnCalls - 1
          /\ result \in EngineOutputs
    /\ (pc = "threw" /\ retrying.fnCalls > 0) =>
          /\ retrying.fnCalls = maxRetriesOf(input) + 1
          /\ Len(retrying.errors) = retrying.fnCalls
          /\ Len(retrying.delays) = maxRetriesOf(input)
          /\ thrown.message = String(retrying.errors[Len(retrying.errors)])

\* C30 witness: three attempts failed with waits of 100 and 150 (300 capped
\* by maxDelay), and retry threw the third attempt's error
C30_Witness ==
    /\ pc = "threw"
    /\ retrying.fnCalls = 3
    /\ retrying.delays = <<100, 150>>
    /\ now = 250
    /\ thrown.message = "busy"

=============================================================================
